---- MODULE Spec2Model ----
(***************************************************************************)
(* Model of the Unified Zillow Scraper.                                    *)
(*                                                                         *)
(*  - UnifiedSelectorManager (src/README.md, lines 672-1374): the selector *)
(*    cache, the performance counters and the tiered field resolution      *)
(*    (cached selector, static hierarchy, AI-generated selector).  The     *)
(*    async methods are split at their await points: one action per        *)
(*    synchronous segment.                                                 *)
(*  - handleDetailPage / processPropertyData / cleanPrice / extractNumber  *)
(*    of src/main.js.backup.                                               *)
(*  - generateSearchUrls, the request queue of the zipcode and             *)
(*    comprehensive modes and handleZipcodeSearch of src/main.js.backup.   *)
(*  - getUrlPattern on character sequences.                                *)
(*  - URLGenerator (src/README.md, lines 1382-1754): generateSearchUrl,    *)
(*    buildFilterState and the discovery strategies.                       *)
(*  - getStats snapshots, search pages whose cards carry different markup, *)
(*    and two resolutions interleaved on one manager.                      *)
(*                                                                         *)
(* JavaScript values are tagged records: Null, Str(<<chars>>), numbers,     *)
(* List(<<elements>>).  Strings the code inspects character by character   *)
(* (URLs, prices) are sequences of one-character strings; selectors, field *)
(* names and page types are only compared, and are TLA+ strings.           *)
(***************************************************************************)
EXTENDS Integers, Sequences, FiniteSets, TLC

VARIABLES
    selectorCache,      \* this.selectorCache: set of [key, sel], keys unique
    performanceStats,   \* this.performanceStats
    task,               \* task[t]: the frame of the call task t is running
    lastReset,          \* history: what the last step cleared, if it was reset()
    tally,              \* history: resolutions won per tier since the last reset
    snapshot,           \* the object a getStats() call returned to its caller
    arg,                \* the arguments a pure function is applied to
    res,                \* its results
    input,              \* main.js: the actor's input
    requestQueue,       \* main.js: the requests not yet handled
    dataset,            \* main.js: the records pushed with Actor.pushData
    counters,           \* main.js: successfulExtractions, failedExtractions,
                        \* itemsCounter and modeStats
    aborted,            \* main.js: crawler.autoscaledPool.abort() was called
    zipCodeStats,       \* main.js: zipCodeStats, zip code -> properties, pages, errors
    enqueued            \* the URLs the request queue was ever given (its unique keys)

managerVars == <<selectorCache, performanceStats, task, lastReset, tally, snapshot>>
pureVars == <<arg, res>>
crawlVars == <<input, requestQueue, dataset, counters, aborted, zipCodeStats, enqueued>>
vars == <<managerVars, pureVars, crawlVars>>

-----------------------------------------------------------------------------
(* Bounds of the model *)

\* Selectors kept per field, from the head of each hierarchy.
MaxSel == 2
\* No new call starts once the five counters sum to this.
MaxCount == 2

-----------------------------------------------------------------------------
(* JavaScript values *)

Null == [t |-> "null"]
Str(s) == [t |-> "str", s |-> s]
\* A number: sign, integer part, fraction digits without trailing zeros.
\* Zero has no sign (-0 === 0).  Floating-point rounding is not modelled.
Number(neg, int, frac) ==
    [t |-> "num", neg |-> neg /\ (int # 0 \/ frac # <<>>), int |-> int, frac |-> frac]
NaN == [t |-> "nan"]
\* What a call that ends with an exception yields.
Thrown == [t |-> "throw"]
List(els) == [t |-> "list", els |-> els]
Bool(b) == [t |-> "bool", b |-> b]
\* An object whose members are read in insertion order: <<key, value>> pairs,
\* the keys sequences of characters, no key twice.
Dict(members) == [t |-> "dict", m |-> members]
Has(o, key) == \E n \in 1..Len(o.m) : o.m[n][1] = key
\* o[key]; a missing member is falsy.
Get(o, key) ==
    IF Has(o, key) THEN o.m[CHOOSE n \in 1..Len(o.m) : o.m[n][1] = key][2]
    ELSE [t |-> "null"]
\* o[key] = value: a new key goes last, a known key keeps its place.
Put(o, key, value) ==
    IF Has(o, key)
    THEN Dict([n \in 1..Len(o.m) |-> IF o.m[n][1] = key THEN <<key, value>> ELSE o.m[n]])
    ELSE Dict(Append(o.m, <<key, value>>))

IsStr(v) == v.t = "str"
\* JS truthiness of the values the model uses.
Truthy(v) ==
    CASE v.t = "null" -> FALSE
      [] v.t = "str" -> v.s # <<>>
      [] v.t = "num" -> v.int # 0 \/ v.frac # <<>>
      [] v.t = "nan" -> FALSE
      [] v.t = "bool" -> v.b
      [] OTHER -> TRUE

\* The letters toLowerCase changes, and what it changes them to.
Upper == <<"A", "B", "C", "D", "E", "F", "G", "H", "I", "J", "K", "L", "M", "N", "O", "P", "Q", "R", "S", "T", "U", "V", "W", "X", "Y", "Z">>
Lower == <<"a", "b", "c", "d", "e", "f", "g", "h", "i", "j", "k", "l", "m", "n", "o", "p", "q", "r", "s", "t", "u", "v", "w", "x", "y", "z">>

toLowerCase(s) ==
    [n \in 1..Len(s) |->
        IF \E m \in 1..Len(Upper) : Upper[m] = s[n]
        THEN Lower[CHOOSE m \in 1..Len(Upper) : Upper[m] = s[n]]
        ELSE s[n]]

Digits == {"0", "1", "2", "3", "4", "5", "6", "7", "8", "9"}
IsDigit(c) == c \in Digits

Min(S) == CHOOSE x \in S : \A y \in S : x <= y

\* The one element of a set of one element: {e(x) : x \in {v}} computes v once.
Only1(S) == CHOOSE x \in S : TRUE

-----------------------------------------------------------------------------
(* getUrlPattern *)

ZpidSuffix == <<"_", "z", "p", "i", "d">>

\* End of the digit run that starts at i (i - 1 when s[i] is no digit).
RunEnd(s, i) ==
    IF \E k \in i..Len(s) : ~IsDigit(s[k])
    THEN Min({k \in i..Len(s) : ~IsDigit(s[k])}) - 1
    ELSE Len(s)

\* /\/\d+_zpid/ matches at i: a slash, one or more digits, then _zpid.
ZpidMatchAt(s, i) ==
    /\ s[i] = "/"
    /\ i + 1 <= Len(s)
    /\ IsDigit(s[i + 1])
    /\ RunEnd(s, i + 1) + 5 <= Len(s)
    /\ SubSeq(s, RunEnd(s, i + 1) + 1, RunEnd(s, i + 1) + 5) = ZpidSuffix

\* s.replace(/\/\d+_zpid/, '/ZPID'): the first match only.
ReplaceZpid(s) ==
    LET M == {i \in 1..Len(s) : ZpidMatchAt(s, i)} IN
    IF M = {} THEN s
    ELSE LET i == Min(M)
             j == RunEnd(s, i + 1) + 5
         IN SubSeq(s, 1, i - 1) \o <<"/", "Z", "P", "I", "D">> \o SubSeq(s, j + 1, Len(s))

\* /\d{5,}/ matches at i: five digits start here (greedy to the end of the run).
LongRunAt(s, i) ==
    /\ i + 4 <= Len(s)
    /\ \A k \in i..(i + 4) : IsDigit(s[k])

\* s.replace(/\d{5,}/, 'ID'): the first match only.
ReplaceLongRun(s) ==
    LET M == {i \in 1..Len(s) : LongRunAt(s, i)} IN
    IF M = {} THEN s
    ELSE LET i == Min(M)
             j == RunEnd(s, i)
         IN SubSeq(s, 1, i - 1) \o <<"I", "D">> \o SubSeq(s, j + 1, Len(s))

\* url is a character sequence.
getUrlPattern(url) ==
    Only1({Only1({ReplaceLongRun(s) : s \in {ReplaceZpid(u)}}) : u \in {url}})

-----------------------------------------------------------------------------
(* parseFloat, cleanPrice, extractNumber *)

DigitValue ==
    "0" :> 0 @@ "1" :> 1 @@ "2" :> 2 @@ "3" :> 3 @@ "4" :> 4 @@
    "5" :> 5 @@ "6" :> 6 @@ "7" :> 7 @@ "8" :> 8 @@ "9" :> 9

RECURSIVE DigitsValue(_)
DigitsValue(ds) ==
    IF ds = <<>> THEN 0
    ELSE 10 * DigitsValue(SubSeq(ds, 1, Len(ds) - 1)) + DigitValue[ds[Len(ds)]]

RECURSIVE StripZeros(_)
StripZeros(ds) ==
    IF ds # <<>> /\ ds[Len(ds)] = "0" THEN StripZeros(SubSeq(ds, 1, Len(ds) - 1)) ELSE ds

\* parseFloat of a string without leading blanks and without an exponent: an
\* optional sign, digits, optionally a dot and digits; the longest such prefix.
ParseFloat(s) ==
    LET neg == s # <<>> /\ s[1] = "-"
        r == IF s # <<>> /\ s[1] \in {"-", "+"} THEN Tail(s) ELSE s
        ie == RunEnd(r, 1)
        int == SubSeq(r, 1, ie)
        dot == ie + 1 <= Len(r) /\ r[ie + 1] = "."
        frac == IF dot THEN SubSeq(r, ie + 2, RunEnd(r, ie + 2)) ELSE <<>>
    IN IF int = <<>> /\ frac = <<>> THEN NaN
       ELSE Number(neg, DigitsValue(int), StripZeros(frac))

Filter(s, keep) == SelectSeq(s, LAMBDA c : c \in keep)

\* cleanPrice (the same body in main.js and in the selector manager).  A
\* number has no replace method: calling it throws a TypeError.
cleanPrice(priceStr) ==
    IF ~Truthy(priceStr) THEN Null
    ELSE IF ~IsStr(priceStr) THEN Thrown
    ELSE LET cleaned == Filter(priceStr.s, Digits \cup {",", ".", "-"}) IN
         Only1({IF number.t = "nan" THEN priceStr ELSE number :
                    number \in {ParseFloat(Filter(cleaned, Digits \cup {".", "-"}))}})

\* str.match(/[\d.]+/): the first run of digits and dots.
FirstNumberRun(s) ==
    LET M == {i \in 1..Len(s) : s[i] \in Digits \cup {"."}} IN
    IF M = {} THEN <<>>
    ELSE LET i == Min(M)
             N == {k \in i..Len(s) : s[k] \notin Digits \cup {"."}}
         IN SubSeq(s, i, IF N = {} THEN Len(s) ELSE Min(N) - 1)

\* extractNumber.  A number has no match method: calling it throws.
extractNumber(str) ==
    IF ~Truthy(str) THEN Null
    ELSE IF ~IsStr(str) THEN Thrown
    ELSE IF FirstNumberRun(str.s) = <<>> THEN Null
    ELSE ParseFloat(FirstNumberRun(str.s))

\* Mutant: the digits before _zpid, whatever precedes them.
extractZpidAnywhere(url) ==
    IF ~Truthy(url) THEN Null
    ELSE IF ~IsStr(url) THEN Thrown
    ELSE LET s == <<"/">> \o url.s
             M == {i \in 1..Len(s) :
                     ZpidMatchAt([s EXCEPT ![i] = "/"], i) /\ ~IsDigit(s[i])}
         IN IF M = {} THEN Null
            ELSE Str(SubSeq(s, Min(M) + 1, RunEnd(s, Min(M) + 1)))

\* extractZpidFromUrl: url.match(/\/(\d+)_zpid/), the first match, its group 1.
\* A number has no match method: calling it throws.
extractZpidFromUrl(urlGiven) ==
    Only1({IF ~Truthy(url) THEN Null
           ELSE IF ~IsStr(url) THEN Thrown
           ELSE LET M == {i \in 1..Len(url.s) : ZpidMatchAt(url.s, i)} IN
                IF M = {} THEN Null
                ELSE Str(SubSeq(url.s, Min(M) + 1, RunEnd(url.s, Min(M) + 1))) :
                url \in {urlGiven}})

-----------------------------------------------------------------------------
(* Selector tables *)

searchSelectors ==
    [propertyCards |->
        <<"[data-testid=\"property-card\"]", ".property-card", ".list-card",
          ".search-result", "article[data-zpid]", "[class*=\"property\"]",
          ".result-item">>,
     propertyLinks |->
        <<"[data-testid=\"property-card\"] a[href*=\"/homedetails/\"]",
          ".property-card a[href*=\"/homedetails/\"]",
          ".list-card a[href*=\"/homedetails/\"]", "a[href*=\"/homedetails/\"]",
          "[data-zpid] a", ".property-link">>,
     searchAddresses |->
        <<"[data-testid=\"property-card\"] address", ".property-card .address",
          ".list-card .address", "[data-testid=\"address\"]", ".property-address",
          ".listing-address">>,
     searchPrices |->
        <<"[data-testid=\"property-card\"] [data-testid=\"price\"]",
          ".property-card .price", ".list-card .price",
          "[class*=\"price\"]:not([class*=\"history\"])", ".property-price",
          ".listing-price">>,
     nextPageButton |->
        <<"[data-testid=\"pagination-next-page\"]", ".pagination-next",
          "a[aria-label=\"Next page\"]", ".next-page", "[class*=\"next\"]">>]

detailSelectors ==
    [price |->
        <<"span[data-testid=\"price\"]", ".summary-container .notranslate",
          ".price-section .notranslate", ".home-summary-price",
          ".property-price .notranslate", "[class*=\"price\"] .notranslate">>,
     description |->
        <<"[data-testid=\"home-description-text-description-text\"]",
          ".property-description", ".home-description", ".listing-description",
          "[class*=\"description\"] p", ".remarks">>]

\* Names every object literal inherits from Object.prototype: truthy, not iterable.
InheritedNames == {"constructor", "toString"}

Undefined == <<"undefined">>
NotIterable == <<"not-iterable">>

Kept(seq) == SubSeq(seq, 1, IF Len(seq) < MaxSel THEN Len(seq) ELSE MaxSel)

\* pageType === 'search' ? this.searchSelectors[fieldName] : this.detailSelectors[fieldName]
SelectorsFor(pageType, fieldName) ==
    LET table == IF pageType = "search" THEN searchSelectors ELSE detailSelectors IN
    IF fieldName \in DOMAIN table THEN Kept(table[fieldName])
    ELSE IF fieldName \in InheritedNames THEN NotIterable
    ELSE Undefined

\* The generative client is constructed unconditionally.
openai == TRUE

\* What the generative client may answer with.
AISelectors == {".ai-generated"}

NoSel == "<none>"

-----------------------------------------------------------------------------
(* Documents *)

\* A page is null (a missing handle: every query throws) or maps each selector
\* to the list of elements it matches; an element has its trimmed text and href.
\* cards is what the card query of extractFromCard finds in the document.
NullPage == [kind |-> "null", q |-> <<>>, cards |-> <<>>, blocked |-> FALSE]
El(text) == [text |-> text, href |-> Null, details |-> <<>>]

\* The selector list extractFromCard finds the cards with.
CardSelectors ==
    <<"[data-testid=\"property-card\"]", ".property-card", ".list-card",
      ".search-result", "article[data-zpid]">>

\* cards[index] where the document has no such card: every sub-field is null.
NoCard == [text |-> <<>>, href |-> Null, details |-> <<>>]

\* cards[index] of document.querySelectorAll(<the card selectors>), index from 1.
CardAt(page, index) ==
    IF index \in 1..Len(page.cards) THEN page.cards[index] ELSE NoCard

\* The cards of a document that lists the elements of an earlier card selector
\* before those of a later one.
CardsOf(q) ==
    LET at(n) == IF CardSelectors[n] \in DOMAIN q THEN q[CardSelectors[n]] ELSE <<>>
    IN at(1) \o at(2) \o at(3) \o at(4) \o at(5)

\* page.$$(selector), for a page that is not null.
QueryAll(page, selector) ==
    IF selector \in DOMAIN page.q THEN page.q[selector] ELSE <<>>

StartsWithTel(s) == Len(s) >= 4 /\ SubSeq(s, 1, 4) = <<"t", "e", "l", ":">>

\* trySelector: the whole body is inside try/catch, so it returns null on any error.
TrySelector(page, selector, fieldName) ==
    IF page.kind = "null" THEN Null
    ELSE LET els == QueryAll(page, selector) IN
         IF els = <<>> THEN Null
         ELSE LET el == els[1]
                  raw == IF fieldName = "agentPhone" /\ Truthy(el.href)
                         THEN el.href ELSE Str(el.text)
                  result == IF fieldName = "agentPhone" /\ StartsWithTel(raw.s)
                            THEN Str(SubSeq(raw.s, 5, Len(raw.s))) ELSE raw
              IN IF Truthy(result) THEN result ELSE Null

-----------------------------------------------------------------------------
(* Cache and counters *)

ZeroStats ==
    [cacheHits |-> 0, cacheMisses |-> 0, aiCalls |-> 0,
     successfulExtractions |-> 0, failedExtractions |-> 0]

CacheKey(pageType, fieldName, url) == <<pageType, fieldName, getUrlPattern(url.s)>>

CacheHas(cache, key) == \E k \in {key} : \E e \in cache : e.key = k
CacheGet(cache, key) == Only1({(CHOOSE e \in cache : e.key = k).sel : k \in {key}})
\* Mutant: a write drops the entries of the other keys.
CacheSetAlone(cache, key, sel) == {[key |-> key, sel |-> sel]}
CacheSet(cache, key, sel) ==
    Only1({{e \in cache : e.key # k} \cup {[key |-> k, sel |-> sel]} : k \in {key}})
CacheDelete(cache, key) == Only1({{e \in cache : e.key # k} : k \in {key}})

\* Mutant: a counter that counts down.
Dec(stats, counter) == [stats EXCEPT ![counter] = @ - 1]
Inc(stats, counter) == [stats EXCEPT ![counter] = @ + 1]

StatsSum(stats) ==
    stats.cacheHits + stats.cacheMisses + stats.aiCalls
        + stats.successfulExtractions + stats.failedExtractions

-----------------------------------------------------------------------------
(* Frames *)

Idle ==
    [pc |-> "idle", op |-> "none", outer |-> "none",
     page |-> NullPage, fieldName |-> "", url |-> Null, pageType |-> "",
     cachedSelector |-> NoSel, i |-> 0, aiSelector |-> NoSel,
     ret |-> Null, threw |-> FALSE,
     \* extractPropertyDetails: index of the field being extracted, propertyData
     k |-> 0, propertyData |-> Null,
     \* main.js: the handler the frame runs, its request, the processed data,
     \* whether its catch block ran
     handler |-> "none", request |-> Null, processed |-> Null, caught |-> FALSE,
     \* handleZipcodeSearch: the properties of the page, index of the one in hand
     properties |-> <<>>, j |-> 0,
     \* history of the current extractField / findElements call
     trace |-> <<>>, own |-> ZeroStats, entryAtCall |-> NoSel, entryAtStep |-> NoSel]

Out(f, cache, stats) == [f |-> f, cache |-> cache, stats |-> stats]

\* Where control goes when extractField / findElements settles: to the caller
\* of the task, or to the continuation of the method that awaits it.
ReturnPc(f) ==
    CASE f.outer = "extractPropertyDetails" -> "epd_field"
      [] f.outer = "extractSearchResults" -> "esr_cards"
      [] f.outer = "hasNextPage" -> "hnp_find"
      [] OTHER -> "done"

\* The call returns v.
Return(f, v) == [f EXCEPT !.pc = ReturnPc(f), !.ret = v]
\* The call ends with an exception that nothing in it catches.
Throw(f) == [f EXCEPT !.pc = ReturnPc(f), !.threw = TRUE]

Logged(f, tier, sel) == [f EXCEPT !.trace = Append(@, <<tier, sel>>)]

-----------------------------------------------------------------------------
(* extractField, one operator per synchronous segment.  Each takes the frame
   and the manager's state and yields the new frame, cache and counters. *)

Hierarchy(f) == SelectorsFor(f.pageType, f.fieldName)

\* for (const selector of selectors): a value that is not iterable throws here.
EnterStatic(f) ==
    IF Hierarchy(f) = NotIterable THEN Throw(f)
    ELSE [f EXCEPT !.pc = "ef_static", !.i = 1]

\* if (this.openai) { ... await this.tryAISelector(...) ... } return null
EnterAI(f) ==
    IF openai THEN [f EXCEPT !.pc = "ai_content"] ELSE Return(f, Null)

\* From the call to the first await: table lookup, cache key, cache lookup.
ExtractFieldStart(frame, cache, stats) ==
    Only1({
    IF Hierarchy(f) = Undefined THEN Out(Return(f, Null), cache, stats)
    ELSE IF ~IsStr(f.url) THEN Out(Throw(f), cache, stats)
    ELSE LET cacheKey == CacheKey(f.pageType, f.fieldName, f.url) IN
         IF CacheHas(cache, cacheKey)
         THEN Out([f EXCEPT !.pc = "ef_cached",
                            !.cachedSelector = CacheGet(cache, cacheKey)],
                  cache, stats)
         ELSE Out(EnterStatic(f), cache, stats) : f \in {frame}})


\* Mutant: the cached selector is trusted without being evaluated on the page
\* of the call; the call answers with what the selector shows on document A.
CachedResumeTrusted(f, cache, stats) ==
    Out(Return(Logged(f, "cache", f.cachedSelector), Str(<<"A", f.cachedSelector>>)),
        cache, Inc(stats, "cacheHits"))

\* Mutant: a cache hit that is not counted.
CachedResumeUncounted(f, cache, stats) ==
    LET result == TrySelector(f.page, f.cachedSelector, f.fieldName)
        g == Logged(f, "cache", f.cachedSelector)
    IN IF Truthy(result)
       THEN Out(Return(g, result), cache, stats)
       ELSE Out(EnterStatic(g), cache, stats)

\* After await trySelector(page, cachedSelector, ...).  trySelector never throws,
\* so the catch block holding selectorCache.delete(cacheKey) is never entered.
CachedResume(f, cache, stats) ==
    LET result == TrySelector(f.page, f.cachedSelector, f.fieldName)
        g == Logged(f, "cache", f.cachedSelector)
    IN IF Truthy(result)
       THEN Out(Return(g, result), cache, Inc(stats, "cacheHits"))
       ELSE Out(EnterStatic(g), cache, stats)


\* Mutant: the walk goes on after a match and the last match wins.
StaticResumeLastWins(f, cache, stats) ==
    LET selector == Hierarchy(f)[f.i]
        result == TrySelector(f.page, selector, f.fieldName)
        g == Logged(f, "static", selector)
        more == \E n \in (f.i + 1)..Len(Hierarchy(f)) :
                    Truthy(TrySelector(f.page, Hierarchy(f)[n], f.fieldName))
    IN IF Truthy(result) /\ ~more
       THEN Out(Return(g, result),
                CacheSet(cache, CacheKey(f.pageType, f.fieldName, f.url), selector),
                Inc(stats, "cacheMisses"))
       ELSE IF f.i < Len(Hierarchy(f))
       THEN Out([g EXCEPT !.i = @ + 1], cache, stats)
       ELSE Out(EnterAI(g), cache, stats)

\* After await trySelector(page, selector, ...) inside the hierarchy loop.
StaticResume(f, cache, stats) ==
    LET selector == Hierarchy(f)[f.i]
        result == TrySelector(f.page, selector, f.fieldName)
        g == Logged(f, "static", selector)
    IN IF Truthy(result)
       THEN Out(Return(g, result),
                CacheSet(cache, CacheKey(f.pageType, f.fieldName, f.url), selector),
                Inc(stats, "cacheMisses"))
       ELSE IF f.i < Len(Hierarchy(f))
       THEN Out([g EXCEPT !.i = @ + 1], cache, stats)
       ELSE Out(EnterAI(g), cache, stats)

\* tryAISelector after await page.content(): a null page throws, the catch
\* returns null; otherwise the prompt is built and the client is called.
AIContentResume(f, cache, stats) ==
    IF f.page.kind = "null" THEN Out(Return(f, Null), cache, stats)
    ELSE Out([Logged(f, "aicall", NoSel) EXCEPT !.pc = "ai_create"], cache, stats)


\* Mutant: a failed call of the client is retried once.
AICreateResumeRetry(f, answer, cache, stats) ==
    IF answer \in {"error", "empty"}
    THEN IF Len(SelectSeq(f.trace, LAMBDA e : e[1] = "aicall")) < 2
         THEN Out(Logged(f, "aicall", NoSel), cache, stats)
         ELSE Out(Return(f, Null), cache, stats)
    ELSE Out([f EXCEPT !.pc = "ai_try", !.aiSelector = answer], cache, stats)

\* Mutant: a generated selector is written to the cache before it is tried.
AICreateResumeCached(f, answer, cache, stats) ==
    IF answer \in {"error", "empty"} THEN Out(Return(f, Null), cache, stats)
    ELSE Out([f EXCEPT !.pc = "ai_try", !.aiSelector = answer],
             CacheSet(cache, CacheKey(f.pageType, f.fieldName, f.url), answer),
             stats)

\* After await this.openai.chat.completions.create(...): the call failed
\* ("error"), answered without usable content ("empty"), or gave a selector.
AICreateResume(f, answer, cache, stats) ==
    IF answer \in {"error", "empty"} THEN Out(Return(f, Null), cache, stats)
    ELSE Out([f EXCEPT !.pc = "ai_try", !.aiSelector = answer], cache, stats)

\* Mutant: a generated selector that worked is not written to the cache.
AITryResumeUncached(f, cache, stats) ==
    LET result == TrySelector(f.page, f.aiSelector, f.fieldName)
        g == Logged(f, "ai", f.aiSelector)
    IN IF Truthy(result)
       THEN Out([g EXCEPT !.pc = "ef_ai_ret", !.ret = result], cache, stats)
       ELSE Out(Return(g, Null), cache, stats)

\* After await trySelector(page, aiSelector, ...) in tryAISelector.
AITryResume(f, cache, stats) ==
    LET result == TrySelector(f.page, f.aiSelector, f.fieldName)
        g == Logged(f, "ai", f.aiSelector)
    IN IF Truthy(result)
       THEN Out([g EXCEPT !.pc = "ef_ai_ret", !.ret = result],
                CacheSet(cache, CacheKey(f.pageType, f.fieldName, f.url), f.aiSelector),
                stats)
       ELSE Out(Return(g, Null), cache, stats)


\* Mutant: a generated selector that worked is counted as a static hit as well.
AIReturnCountedTwice(f, cache, stats) ==
    Out(Return(f, f.ret), cache, Inc(Inc(stats, "aiCalls"), "cacheMisses"))

\* Back in extractField after await tryAISelector(...) gave a value.
AIReturn(f, cache, stats) ==
    Out(Return(f, f.ret), cache, Inc(stats, "aiCalls"))

-----------------------------------------------------------------------------
(* parsePropertyDetails *)

\* End of the run of characters of G that starts at i (i - 1 when s[i] is not in G).
GroupEnd(s, i, G) ==
    LET N == {k \in i..Len(s) : s[k] \notin G} IN
    IF N = {} THEN Len(s) ELSE Min(N) - 1

\* \s* from i: the index of the first character that is no blank.
SkipBlanks(s, i) ==
    LET N == {k \in i..Len(s) : s[k] # " "} IN
    IF N = {} THEN Len(s) + 1 ELSE Min(N)

\* One of the units is written at i, in either case.
UnitAt(s, i, units) ==
    \E u \in units : i + Len(u) - 1 <= Len(s) /\ SubSeq(toLowerCase(s), i, i + Len(u) - 1) = u

\* The group of the first match of /(<group>)\s*(?:<units>)/i in s, <<>> when
\* there is none; the group is a run of G, followed when fraction is set by a
\* dot and a run of digits if they are there.
FirstGroup(s, G, fraction, units) ==
    LET end(i) ==
            LET e == GroupEnd(s, i, G) IN
            IF fraction /\ e + 2 <= Len(s) /\ s[e + 1] = "." /\ IsDigit(s[e + 2])
            THEN RunEnd(s, e + 2) ELSE e
        M == {i \in 1..Len(s) : s[i] \in G /\ UnitAt(s, SkipBlanks(s, end(i) + 1), units)}
    IN IF M = {} THEN <<>> ELSE SubSeq(s, Min(M), end(Min(M)))

\* parseInt of a run of digits.
ParseInt(ds) == IF ds = <<>> THEN NaN ELSE Number(FALSE, DigitsValue(ds), <<>>)

\* The members the code leaves unset are Null.
parsePropertyDetails(detailsStr) ==
    IF ~Truthy(detailsStr) THEN [beds |-> Null, baths |-> Null, sqft |-> Null]
    ELSE LET bedMatch == FirstGroup(detailsStr.s, Digits, FALSE,
                                    {<<"b", "d">>, <<"b", "e", "d">>, <<"b", "e", "d", "r", "o", "o", "m">>})
             bathMatch == FirstGroup(detailsStr.s, Digits, TRUE,
                                     {<<"b", "a">>, <<"b", "a", "t", "h">>, <<"b", "a", "t", "h", "r", "o", "o", "m">>})
             sqftMatch == FirstGroup(detailsStr.s, Digits \cup {","}, FALSE,
                                     {<<"s", "q", "f", "t">>, <<"s", "q", " ", "f", "t">>, <<"s", "q", "u", "a", "r", "e", " ", "f", "e", "e", "t">>})
         IN [beds |-> IF bedMatch # <<>> THEN ParseInt(bedMatch) ELSE Null,
             baths |-> IF bathMatch # <<>> THEN ParseFloat(bathMatch) ELSE Null,
             sqft |-> IF sqftMatch # <<>> THEN ParseInt(Filter(sqftMatch, Digits)) ELSE Null]

-----------------------------------------------------------------------------
(* reset *)

\* failureCount is cleared too; nothing else ever reads or writes it.
ResetCache(cache) == {}

\* Mutant: reset() forgets one counter.
ResetStatsKeepsAICalls(stats) == [ZeroStats EXCEPT !.aiCalls = stats.aiCalls]

ResetStats(stats) == ZeroStats

-----------------------------------------------------------------------------
(* getStats *)

RECURSIVE Gcd(_, _)
Gcd(a, b) == IF b = 0 THEN a ELSE Gcd(b, a % b)

\* The quotient a / b (b > 0) as a fraction in lowest terms.
Quotient(a, b) == [num |-> a \div Gcd(a, b), den |-> b \div Gcd(a, b)]
Zero == [num |-> 0, den |-> 1]

\* Mutant: resolutions by a generated selector counted in the rate's denominator.
GetStatsOverAllTiers(cache, stats) ==
    [cachedSelectors |-> Cardinality(cache),
     cacheHitRate |->
        IF stats.cacheHits + stats.cacheMisses > 0
        THEN Quotient(stats.cacheHits,
                      stats.cacheHits + stats.cacheMisses + stats.aiCalls)
        ELSE Zero,
     aiCalls |-> stats.aiCalls,
     successfulExtractions |-> stats.successfulExtractions,
     failedExtractions |-> stats.failedExtractions,
     totalExtractions |-> stats.successfulExtractions + stats.failedExtractions,
     successRate |->
        IF stats.successfulExtractions + stats.failedExtractions > 0
        THEN Quotient(stats.successfulExtractions,
                      stats.successfulExtractions + stats.failedExtractions)
        ELSE Zero]

GetStats(cache, stats) ==
    [cachedSelectors |-> Cardinality(cache),
     cacheHitRate |->
        IF stats.cacheHits + stats.cacheMisses > 0
        THEN Quotient(stats.cacheHits, stats.cacheHits + stats.cacheMisses)
        ELSE Zero,
     aiCalls |-> stats.aiCalls,
     successfulExtractions |-> stats.successfulExtractions,
     failedExtractions |-> stats.failedExtractions,
     totalExtractions |-> stats.successfulExtractions + stats.failedExtractions,
     successRate |->
        IF stats.successfulExtractions + stats.failedExtractions > 0
        THEN Quotient(stats.successfulExtractions,
                      stats.successfulExtractions + stats.failedExtractions)
        ELSE Zero]


\* Mutant: getStats() hands out a live view of the engine's counters.
GetStatsLive == "live"

\* The object getStats() returns: an object literal built at the call
\* ("fresh"), holding numbers only.
GetStatsObject == "fresh"

\* No getStats() call yet.
NoSnapshot == [ref |-> "none", modified |-> FALSE]

\* What the caller holds after getStats(): the object, its content at the
\* return, and its content now when the object is its own.
Snapshot(ref, cache, stats) ==
    [ref |-> ref, modified |-> FALSE,
     returned |-> GetStats(cache, stats), own |-> GetStats(cache, stats)]

\* What the caller reads from the object it holds.
Read(snap, cache, stats) ==
    IF snap.ref = "fresh" THEN snap.own ELSE GetStats(cache, stats)

-----------------------------------------------------------------------------
(* findElements *)

FEEnterStatic(f) ==
    IF Hierarchy(f) = NotIterable THEN Throw(f)
    ELSE [f EXCEPT !.pc = "fe_static", !.i = 1]

\* From the call to the first await.
FindElementsStart(frame, cache, stats) ==
    Only1({
    IF Hierarchy(f) = Undefined THEN Out(Return(f, List(<<>>)), cache, stats)
    ELSE IF ~IsStr(f.url) THEN Out(Throw(f), cache, stats)
    ELSE LET cacheKey == CacheKey(f.pageType, f.fieldName, f.url) IN
         IF CacheHas(cache, cacheKey)
         THEN Out([f EXCEPT !.pc = "fe_cached",
                            !.cachedSelector = CacheGet(cache, cacheKey)],
                  cache, stats)
         ELSE Out(FEEnterStatic(f), cache, stats) : f \in {frame}})

\* After await page.$$(cachedSelector): a throw (null page) deletes the entry.
FECachedResume(f, cache, stats) ==
    LET g == Logged(f, "cache", f.cachedSelector) IN
    IF f.page.kind = "null"
    THEN Out(FEEnterStatic(g),
             CacheDelete(cache, CacheKey(f.pageType, f.fieldName, f.url)), stats)
    ELSE LET elements == QueryAll(f.page, f.cachedSelector) IN
         IF Len(elements) > 0
         THEN Out(Return(g, List(elements)), cache, Inc(stats, "cacheHits"))
         ELSE Out(FEEnterStatic(g), cache, stats)

\* Mutant: the matches of the later selectors are added to the result.
FEStaticResumeMerged(f, cache, stats) ==
    LET selector == Hierarchy(f)[f.i]
        g == Logged(f, "static", selector)
        elements == IF f.page.kind = "null" THEN <<>> ELSE QueryAll(f.page, selector)
        later == IF f.i < Len(Hierarchy(f)) /\ f.page.kind # "null"
                 THEN QueryAll(f.page, Hierarchy(f)[f.i + 1]) ELSE <<>>
    IN IF Len(elements) > 0
       THEN Out(Return(g, List(elements \o later)),
                CacheSet(cache, CacheKey(f.pageType, f.fieldName, f.url), selector),
                Inc(stats, "cacheMisses"))
       ELSE IF f.i < Len(Hierarchy(f))
       THEN Out([g EXCEPT !.i = @ + 1], cache, stats)
       ELSE Out(Return(g, List(<<>>)), cache, stats)

\* After await page.$$(selector) inside the hierarchy loop.
FEStaticResume(f, cache, stats) ==
    LET selector == Hierarchy(f)[f.i]
        g == Logged(f, "static", selector)
        elements == IF f.page.kind = "null" THEN <<>> ELSE QueryAll(f.page, selector)
    IN IF Len(elements) > 0
       THEN Out(Return(g, List(elements)),
                CacheSet(cache, CacheKey(f.pageType, f.fieldName, f.url), selector),
                Inc(stats, "cacheMisses"))
       ELSE IF f.i < Len(Hierarchy(f))
       THEN Out([g EXCEPT !.i = @ + 1], cache, stats)
       ELSE Out(Return(g, List(<<>>)), cache, stats)

-----------------------------------------------------------------------------
(* extractPropertyDetails, extractSearchResults *)

\* The fields of the loop of extractPropertyDetails that the model keeps.
DetailFields == <<"price", "description">>

Obj(o) == [t |-> "obj", o |-> o]
EmptyData == [name \in {"price", "description"} |-> Null]

\* A fresh extractField / findElements call inside f.
Inner(f, op, fieldName, pageType) ==
    [f EXCEPT !.op = op, !.fieldName = fieldName, !.pageType = pageType,
              !.cachedSelector = NoSel, !.i = 0, !.aiSelector = NoSel,
              !.ret = Null, !.threw = FALSE,
              !.trace = <<>>, !.own = ZeroStats]

\* const propertyData = {}; then the first extractField of the loop.
ExtractPropertyDetailsStart(f, cache, stats) ==
    ExtractFieldStart(
        Inner([f EXCEPT !.outer = "extractPropertyDetails", !.k = 1,
                        !.propertyData = Obj(EmptyData)],
              "extractField", DetailFields[1], "detail"),
        cache, stats)

\* After await extractField(...) in the loop: an exception is caught and logged;
\* a value is stored; then the next field, or on to images and contacts.
EPDFieldResume(f, cache, stats) ==
    LET value == f.ret
        stored == IF ~f.threw /\ value.t # "null"
                  THEN Obj([f.propertyData.o EXCEPT ![DetailFields[f.k]] = value])
                  ELSE f.propertyData
    IN IF f.k < Len(DetailFields)
       THEN ExtractFieldStart(
                Inner([f EXCEPT !.k = @ + 1, !.propertyData = stored],
                      "extractField", DetailFields[f.k + 1], "detail"),
                cache, stats)
       ELSE Out([f EXCEPT !.pc = "epd_tail", !.propertyData = stored], cache, stats)

\* Mutant: a document without price is counted as a failure as well.
EPDFinishStrict(f, cache, stats) ==
    Out([f EXCEPT !.pc = IF f.handler = "DETAIL" THEN "hdp_extracted" ELSE "done",
                  !.op = "extractPropertyDetails",
                  !.ret = f.propertyData, !.threw = FALSE],
        cache,
        IF f.propertyData.o.price = Null
        THEN Inc(Inc(stats, "successfulExtractions"), "failedExtractions")
        ELSE Inc(stats, "successfulExtractions"))

\* After extractImages and extractAdditionalContacts (both catch their own
\* errors and touch neither the cache nor the counters).
EPDFinish(f, cache, stats) ==
    Out([f EXCEPT !.pc = IF f.handler = "DETAIL" THEN "hdp_extracted" ELSE "done",
                  !.op = "extractPropertyDetails",
                  !.ret = f.propertyData, !.threw = FALSE],
        cache, Inc(stats, "successfulExtractions"))

\* const propertyCards = await this.findElements(page, 'propertyCards', url, 'search')
ExtractSearchResultsStart(f, cache, stats) ==
    FindElementsStart(
        Inner([f EXCEPT !.outer = "extractSearchResults"],
              "findElements", "propertyCards", "search"),
        cache, stats)

Origin == <<"h", "t", "t", "p", "s", ":", "/", "/", "w", "w", "w", ".", "z", "i", "l", "l", "o", "w", ".", "c", "o", "m">>

StartsWith(s, prefix) == Len(s) >= Len(prefix) /\ SubSeq(s, 1, Len(prefix)) = prefix

normalizeUrl(url) ==
    IF ~Truthy(url) THEN Null
    ELSE IF StartsWith(url.s, <<"h", "t", "t", "p">>) THEN url
    ELSE IF StartsWith(url.s, <<"/">>) THEN Str(Origin \o url.s)
    ELSE Str(Origin \o <<"/">> \o url.s)

\* What the card shows for a field of the search table: the href of its
\* property link, the text of its price, the text of its details line.
CardShows(card, fieldName) ==
    CASE fieldName = "propertyLinks" -> card.href
      [] fieldName = "searchPrices" -> Str(card.text)
      [] fieldName = "propertyDetails" -> Str(card.details)
      [] OTHER -> Null

\* extractFromCard on the card of its index: the selectors of the field are
\* this.searchSelectors[fieldName] || [], and without selectors nothing is
\* looked up.
ExtractFromCard(card, fieldName) ==
    LET selectors == IF fieldName \in DOMAIN searchSelectors
                     THEN searchSelectors[fieldName] ELSE <<>>
    IN IF selectors # <<>> /\ Truthy(CardShows(card, fieldName))
       THEN CardShows(card, fieldName) ELSE Null

\* extractSearchCardData, for the fields the model keeps.  The card is the
\* element extractFromCard scopes its queries to.  A key the code leaves unset
\* is Null.  The price is stored as cleanPrice leaves it.
SearchCardData(card, url) ==
    Only1({Obj([price |-> IF Truthy(price) THEN cleanPrice(price) ELSE Null,
            description |-> Null,
            url |-> IF Truthy(propertyUrl) THEN normalizeUrl(propertyUrl) ELSE Null,
            zpid |-> IF Truthy(propertyUrl)
                     THEN extractZpidFromUrl(normalizeUrl(propertyUrl)) ELSE Null,
            beds |-> parsedDetails.beds,
            baths |-> parsedDetails.baths,
            sqft |-> parsedDetails.sqft,
            searchUrl |-> url]) :
        propertyUrl \in {ExtractFromCard(card, "propertyLinks")},
        price \in {ExtractFromCard(card, "searchPrices")},
        parsedDetails \in {parsePropertyDetails(ExtractFromCard(card, "propertyDetails"))}})

\* After await findElements(...): an exception lands in the outer catch; no
\* cards gives []; otherwise one record per index of propertyCards, read by
\* extractFromCard from the card it finds at that index (extractSearchCardData
\* catches its own errors and touches neither the cache nor the counters).
ESRCardsResume(f, cache, stats) ==
    LET g == [f EXCEPT !.pc = IF f.handler = "ZIPCODE_SEARCH" THEN "hzs_extracted"
                              ELSE "done",
                       !.op = "extractSearchResults", !.threw = FALSE] IN
    IF f.threw
    THEN Out([g EXCEPT !.ret = List(<<>>)], cache, Inc(stats, "failedExtractions"))
    ELSE Out([g EXCEPT !.ret = List([n \in 1..Len(f.ret.els) |->
                                        SearchCardData(CardAt(f.page, n), f.url)])],
             cache, stats)

\* const nextButtons = await this.findElements(page, 'nextPageButton', url, 'search')
HasNextPageStart(f, cache, stats) ==
    FindElementsStart(
        Inner([f EXCEPT !.outer = "hasNextPage"],
              "findElements", "nextPageButton", "search"),
        cache, stats)

\* After await findElements(...): nextButtons && nextButtons.length > 0, and
\* false when it threw.
HasNextPageResume(f, cache, stats) ==
    Out([f EXCEPT !.pc = IF f.handler = "ZIPCODE_SEARCH" THEN "hzs_hasnext" ELSE "done",
                  !.op = "hasNextPage",
                  !.ret = Bool(~f.threw /\ Len(f.ret.els) > 0), !.threw = FALSE],
        cache, stats)

-----------------------------------------------------------------------------
(* Inputs *)

UrlA == Str(<<"/", "h", "/", "1", "1", "_", "z", "p", "i", "d">>)
UrlB == Str(<<"/", "h", "/", "2", "2", "_", "z", "p", "i", "d">>)
UrlC == Str(<<"/", "s", "/", "1">>)
\* UrlA and UrlB share a pattern; Null is a missing url argument.
Urls == {UrlA, UrlB, UrlC, Null}

PageTypes == {"detail", "search"}
FieldNames == {"price", "propertyCards", "constructor", "nosuch"}

\* The text a page shows at a selector: distinct for distinct selectors.
TextAt(selector) == <<selector>>

Elements(selector, outcome) ==
    CASE outcome = "none" -> <<>>
      [] outcome = "blank" -> <<El(<<>>)>>
      [] outcome = "text" -> <<El(TextAt(selector))>>
      [] outcome = "two" -> <<El(TextAt(selector)), El(<<>>)>>

Range(seq) == {seq[n] : n \in 1..Len(seq)}

\* The selectors a call on (pageType, fieldName) walks through.
Walked(pageType, fieldName) ==
    LET h == SelectorsFor(pageType, fieldName) IN
    IF h \in {Undefined, NotIterable} THEN {} ELSE Range(h)

PageOf(o) ==
    LET q == [x \in DOMAIN o |-> Elements(x, o[x])] IN
    [kind |-> "page", q |-> q, cards |-> CardsOf(q), blocked |-> FALSE]

\* The pages a call on one field can tell apart: each selector of its hierarchy
\* matching or not, the first one possibly matching an element without text,
\* the generated selector matching or not, and the missing page.
FieldPages(pageType, fieldName) ==
    LET h == SelectorsFor(pageType, fieldName)
        first == IF h \in {Undefined, NotIterable} THEN {} ELSE {h[1]}
    IN {NullPage} \cup
       {PageOf(o) : o \in {o \in [Walked(pageType, fieldName) \cup AISelectors
                                     -> {"none", "blank", "text"}] :
                               \A x \in DOMAIN o : o[x] = "blank" => x \in first}}

\* Per field of a detail page: no selector of its hierarchy matches, the first
\* does, or only the last does.
Shape(h, shape) ==
    [x \in Range(h) |->
        IF \/ shape = "first" /\ x = h[1]
           \/ shape = "last" /\ x = h[Len(h)]
        THEN "text" ELSE "none"]

DetailPages ==
    {NullPage} \cup
    {PageOf(Shape(SelectorsFor("detail", "price"), sp)
            @@ Shape(SelectorsFor("detail", "description"), sd)
            @@ [x \in AISelectors |-> ai]) :
        sp \in {"none", "first", "last"}, sd \in {"none", "first", "last"},
        ai \in {"none", "text"}}

AIAnswers == {"error", "empty"} \cup AISelectors

-----------------------------------------------------------------------------
(* Actions *)

StatsPlus(a, b) == [c \in DOMAIN a |-> a[c] + b[c]]
StatsMinus(a, b) == [c \in DOMAIN a |-> a[c] - b[c]]

NoReset == "no"
ZeroTally == [cache |-> 0, static |-> 0, ai |-> 0]

\* The cache entry a call on (pageType, fieldName, url) would find.
EntryFor(cache, pageType, fieldName, url) ==
    IF IsStr(url) /\ CacheHas(cache, CacheKey(pageType, fieldName, url))
    THEN CacheGet(cache, CacheKey(pageType, fieldName, url))
    ELSE NoSel

\* Whether the selector matches on the frame's page, as its method sees it.
Matches(f, selector) ==
    IF f.op = "findElements"
    THEN f.page.kind # "null" /\ QueryAll(f.page, selector) # <<>>
    ELSE Truthy(TrySelector(f.page, selector, f.fieldName))

\* The tier whose evaluation in this step matched, if any.
Won(old, new) ==
    IF /\ Len(new.trace) = Len(old.trace) + 1
       /\ new.trace[Len(new.trace)][1] \in {"cache", "static", "ai"}
       /\ Matches(old, new.trace[Len(new.trace)][2])
    THEN new.trace[Len(new.trace)][1]
    ELSE "none"

\* Task t takes the step whose outcome is r.
Step(t, r) ==
    \E o \in {r} :  \* the outcome, computed once
    /\ task' = [task EXCEPT ![t] =
            [o.f EXCEPT !.own = StatsPlus(@, StatsMinus(o.stats, performanceStats)),
                        !.entryAtCall =
                            IF o.f.trace = <<>> /\ o.f.op \in {"extractField", "findElements"}
                            THEN EntryFor(selectorCache, o.f.pageType, o.f.fieldName, o.f.url)
                            ELSE @,
                        \* the entry of the call's key as its latest step left it
                        !.entryAtStep =
                            IF o.f.op \in {"extractField", "findElements"}
                            THEN EntryFor(o.cache, o.f.pageType, o.f.fieldName, o.f.url)
                            ELSE @]]
    /\ selectorCache' = o.cache
    /\ performanceStats' = o.stats
    /\ lastReset' = NoReset
    /\ tally' = IF Won(task[t], o.f) = "none" THEN tally
                ELSE [tally EXCEPT ![Won(task[t], o.f)] = @ + 1]
    /\ UNCHANGED snapshot

Call(op, page, fieldName, url, pageType) ==
    [Idle EXCEPT !.op = op, !.page = page, !.fieldName = fieldName,
                 !.url = url, !.pageType = pageType]

Apply(t, r) == Step(t, r) /\ UNCHANGED <<pureVars, crawlVars>>

CanStart(t) == task[t].pc = "idle" /\ StatsSum(performanceStats) < MaxCount

ExtractFieldCall(t) ==
    /\ CanStart(t)
    /\ \E pageType \in PageTypes, fieldName \in FieldNames, url \in Urls :
         \E page \in FieldPages(pageType, fieldName) :
            Apply(t, ExtractFieldStart(
                        Call("extractField", page, fieldName, url, pageType),
                        selectorCache, performanceStats))

FindElementsCall(t) ==
    /\ CanStart(t)
    /\ \E pageType \in PageTypes, fieldName \in FieldNames, url \in Urls :
         \E page \in FieldPages(pageType, fieldName) :
            Apply(t, FindElementsStart(
                        Call("findElements", page, fieldName, url, pageType),
                        selectorCache, performanceStats))

ExtractPropertyDetailsCall(t) ==
    /\ CanStart(t)
    /\ \E url \in Urls, page \in DetailPages :
            Apply(t, ExtractPropertyDetailsStart(
                        Call("extractPropertyDetails", page, "", url, "detail"),
                        selectorCache, performanceStats))

ExtractSearchResultsCall(t) ==
    /\ CanStart(t)
    /\ \E url \in Urls, page \in FieldPages("search", "propertyCards") :
            Apply(t, ExtractSearchResultsStart(
                        Call("extractSearchResults", page, "", url, "search"),
                        selectorCache, performanceStats))

At(t, pc) == task[t].pc = pc

EFCached(t) == At(t, "ef_cached") /\ Apply(t, CachedResume(task[t], selectorCache, performanceStats))
EFStatic(t) == At(t, "ef_static") /\ Apply(t, StaticResume(task[t], selectorCache, performanceStats))
AIContent(t) == At(t, "ai_content") /\ Apply(t, AIContentResume(task[t], selectorCache, performanceStats))
AICreate(t) ==
    /\ At(t, "ai_create")
    /\ \E answer \in AIAnswers :
         Apply(t, AICreateResume(task[t], answer, selectorCache, performanceStats))
AITry(t) == At(t, "ai_try") /\ Apply(t, AITryResume(task[t], selectorCache, performanceStats))
EFAIReturn(t) == At(t, "ef_ai_ret") /\ Apply(t, AIReturn(task[t], selectorCache, performanceStats))
FECached(t) == At(t, "fe_cached") /\ Apply(t, FECachedResume(task[t], selectorCache, performanceStats))
FEStatic(t) == At(t, "fe_static") /\ Apply(t, FEStaticResume(task[t], selectorCache, performanceStats))
EPDField(t) == At(t, "epd_field") /\ Apply(t, EPDFieldResume(task[t], selectorCache, performanceStats))
EPDTail(t) == At(t, "epd_tail") /\ Apply(t, EPDFinish(task[t], selectorCache, performanceStats))
ESRCards(t) == At(t, "esr_cards") /\ Apply(t, ESRCardsResume(task[t], selectorCache, performanceStats))

\* The caller takes the result; the task is free again.
Complete(t) == At(t, "done") /\ Apply(t, Out(Idle, selectorCache, performanceStats))

\* reset() is synchronous: one step, between any two segments of the tasks.
Reset ==
    /\ selectorCache' = ResetCache(selectorCache)
    /\ performanceStats' = ResetStats(performanceStats)
    /\ lastReset' = IF selectorCache # {} /\ StatsSum(performanceStats) > 0
                    THEN "dirty" ELSE "clean"
    /\ tally' = ZeroTally
    /\ UNCHANGED <<task, snapshot, pureVars, crawlVars>>

-----------------------------------------------------------------------------
(* The selector manager driven through its public methods, one call at a time *)

Tasks == {1}

\* The manager as its constructor leaves it.
ManagerInit ==
    /\ selectorCache = {}
    /\ performanceStats = ZeroStats
    /\ task = [t \in Tasks |-> Idle]
    /\ lastReset = NoReset
    /\ tally = ZeroTally
    /\ snapshot = NoSnapshot

NoArg == <<>>
PureIdle == arg = NoArg /\ res = NoArg

\* The defaults of the actor's input.
NoInput ==
    [mode |-> "comprehensive", zipCodes |-> <<>>, searchFilters |-> Dict(<<>>),
     discoveryMode |-> "enhanced", maxProperties |-> 100, maxPages |-> 10,
     keywords |-> <<>>, keywordFilterMode |-> "any",
     maxItems |-> 0, testMode |-> FALSE, enableAI |-> TRUE]
ZeroCounters ==
    [totalProperties |-> 0, totalPages |-> 0,
     successfulExtractions |-> 0, failedExtractions |-> 0, itemsCounter |-> 0,
     detailPages |-> 0, zipcodePages |-> 0, keywordMatches |-> 0, keywordFiltered |-> 0]
CrawlIdle ==
    /\ input = NoInput
    /\ requestQueue = <<>>
    /\ dataset = <<>>
    /\ counters = ZeroCounters
    /\ aborted = FALSE
    /\ zipCodeStats = <<>>
    /\ enqueued = {}

Init == ManagerInit /\ PureIdle /\ CrawlIdle

Next ==
    \/ \E t \in Tasks : ExtractFieldCall(t)
    \/ \E t \in Tasks : FindElementsCall(t)
    \/ \E t \in Tasks : ExtractPropertyDetailsCall(t)
    \/ \E t \in Tasks : ExtractSearchResultsCall(t)
    \/ \E t \in Tasks : EFCached(t)
    \/ \E t \in Tasks : EFStatic(t)
    \/ \E t \in Tasks : AIContent(t)
    \/ \E t \in Tasks : AICreate(t)
    \/ \E t \in Tasks : AITry(t)
    \/ \E t \in Tasks : EFAIReturn(t)
    \/ \E t \in Tasks : FECached(t)
    \/ \E t \in Tasks : FEStatic(t)
    \/ \E t \in Tasks : EPDField(t)
    \/ \E t \in Tasks : EPDTail(t)
    \/ \E t \in Tasks : ESRCards(t)
    \/ \E t \in Tasks : Complete(t)
    \/ Reset

Spec == Init /\ [][Next]_vars

-----------------------------------------------------------------------------
(* Properties of the selector manager *)

\* The frames of the tasks.
Frames == {task[t] : t \in DOMAIN task}

\* An extractField call that has settled (returned or thrown).
EFSettled(f) == f.op = "extractField" /\ f.pc \in {"done", "epd_field"}
\* A findElements call that has settled.
FESettled(f) == f.op = "findElements" /\ f.pc \in {"done", "esr_cards"}

Only(counter) == [ZeroStats EXCEPT ![counter] = 1]

\* The entry the call found in the cache still gives a value on its page.
CachedWorks(f) == f.entryAtCall # NoSel /\ Matches(f, f.entryAtCall)

\* The static selectors the call evaluated, in order.
StaticsTried(f) ==
    LET es == SelectSeq(f.trace, LAMBDA e : e[1] = "static") IN
    [n \in 1..Len(es) |-> es[n][2]]

AICallsMade(f) == Len(SelectSeq(f.trace, LAMBDA e : e[1] = "aicall"))

\* C1: an extractField call that finds a cache entry whose selector gives a
\* value on the page returns that value, increments cacheHits (and nothing
\* else), evaluates no static selector and does not call the generative client.
C1_CacheHitShortCircuits ==
    \A f \in Frames :
        EFSettled(f) /\ CachedWorks(f) =>
            /\ ~f.threw
            /\ f.ret = TrySelector(f.page, f.entryAtCall, f.fieldName)
            /\ f.own = Only("cacheHits")
            /\ f.trace = << <<"cache", f.entryAtCall>> >>

C1_Witness ==
    \E f \in Frames :
        /\ EFSettled(f) /\ CachedWorks(f)
        /\ f.ret = TrySelector(f.page, f.entryAtCall, f.fieldName)

\* C2 (as claimed): a cached selector that no longer matches is evicted before
\* the static hierarchy is walked, the call does not raise, and when no later
\* tier succeeds the key is absent afterwards.
C2_StaleEntryEvicted ==
    \A f \in Frames :
        f.entryAtCall # NoSel /\ ~Matches(f, f.entryAtCall) =>
            /\ f.pc \in {"ef_static", "fe_static"} => f.entryAtStep = NoSel
            /\ EFSettled(f) \/ FESettled(f) =>
                  /\ ~f.threw
                  /\ ~Truthy(f.ret) \/ f.ret = List(<<>>) => f.entryAtStep = NoSel

\* The first selector of the hierarchy that gives a value on the page (0: none).
FirstStatic(f) ==
    LET h == Hierarchy(f)
        W == {n \in 1..Len(h) : Truthy(TrySelector(f.page, h[n], f.fieldName))}
    IN IF W = {} THEN 0 ELSE Min(W)

\* C3: when the cache tier gives no value, extractField tries the static
\* selectors in declared order and returns the value of the first that gives
\* one; none after it is evaluated, the cache entry of the key becomes exactly
\* that selector and cacheMisses is incremented by exactly one.
C3_FirstStaticWins ==
    \A f \in Frames :
        EFSettled(f) /\ ~f.threw /\ ~CachedWorks(f)
            /\ Hierarchy(f) # Undefined /\ FirstStatic(f) > 0 =>
            LET h == Hierarchy(f)
                n == FirstStatic(f)
            IN /\ f.ret = TrySelector(f.page, h[n], f.fieldName)
               /\ StaticsTried(f) = SubSeq(h, 1, n)
               /\ f.trace[Len(f.trace)] = <<"static", h[n]>>
               /\ f.entryAtStep = h[n]
               /\ f.own = Only("cacheMisses")

C3_Witness ==
    \E f \in Frames :
        /\ EFSettled(f) /\ ~f.threw /\ ~CachedWorks(f) /\ f.entryAtCall # NoSel
        /\ Hierarchy(f) # Undefined /\ FirstStatic(f) = 2
        /\ f.entryAtStep = Hierarchy(f)[2]

\* C4: within one extractField call the generative client is called at most
\* once, and only after the cache tier and every static selector of the field
\* have failed on the page; never after an earlier tier gave a value.
C4_AILastAndOnce ==
    \A f \in Frames :
        f.op = "extractField" =>
            /\ AICallsMade(f) <= 1
            /\ \A n \in 1..Len(f.trace) :
                  f.trace[n][1] = "aicall" =>
                    /\ \A m \in 1..(n - 1) : ~Matches(f, f.trace[m][2])
                    /\ [m \in 1..(n - 1) |-> f.trace[m]] =
                          (IF f.entryAtCall # NoSel
                           THEN << <<"cache", f.entryAtCall>> >> ELSE <<>>)
                          \o [m \in 1..Len(Hierarchy(f)) |-> <<"static", Hierarchy(f)[m]>>]
                    /\ \A x \in Range(Hierarchy(f)) : ~Matches(f, x)

C4_Witness ==
    \E f \in Frames :
        EFSettled(f) /\ AICallsMade(f) = 1 /\ f.entryAtCall # NoSel /\ Truthy(f.ret)

\* C5: an extractField call that returns a value increments exactly one of
\* cacheHits, cacheMisses and aiCalls, by one; a call that returns null (or
\* ends otherwise) increments none of them.
C5_OneCounterPerValue ==
    \A f \in Frames :
        EFSettled(f) =>
            IF ~f.threw /\ Truthy(f.ret)
            THEN f.own \in {Only("cacheHits"), Only("cacheMisses"), Only("aiCalls")}
            ELSE f.own = ZeroStats

C5_Witness ==
    \E f \in Frames : EFSettled(f) /\ Truthy(f.ret) /\ f.own = Only("aiCalls")

\* C6 (as claimed): extractField and findElements never end with an exception,
\* whatever the page, the url and the field name are.
C6_NeverThrows ==
    \A f \in Frames : EFSettled(f) \/ FESettled(f) => ~f.threw

\* C8: right after reset() the cache is empty and the five counters are 0.
C8_ResetClearsAll ==
    lastReset # NoReset =>
        /\ GetStats(selectorCache, performanceStats).cachedSelectors = 0
        /\ performanceStats.cacheHits = 0
        /\ performanceStats.cacheMisses = 0
        /\ performanceStats.aiCalls = 0
        /\ performanceStats.successfulExtractions = 0
        /\ performanceStats.failedExtractions = 0

C8_Witness ==
    /\ lastReset = "dirty"
    /\ GetStats(selectorCache, performanceStats).cachedSelectors = 0
    /\ \E f \in Frames : f.pc = "ai_try"

\* C9: with n resolutions won by the cached selector and m by a static one
\* since the last reset, cacheHitRate is n / (n + m), and 0 when n + m = 0;
\* successRate is successful / (successful + failed), and 0 when that is 0.
C9_Rates ==
    LET st == GetStats(selectorCache, performanceStats)
        n == tally.cache
        m == tally.static
        ok == performanceStats.successfulExtractions
        ko == performanceStats.failedExtractions
    IN /\ st.cacheHitRate.den > 0
       /\ st.successRate.den > 0
       /\ IF n + m = 0 THEN st.cacheHitRate.num = 0
          ELSE st.cacheHitRate.num * (n + m) = n * st.cacheHitRate.den
       /\ IF ok + ko = 0 THEN st.successRate.num = 0
          ELSE st.successRate.num * (ok + ko) = ok * st.successRate.den

C9_Witness ==
    /\ tally.cache = 1 /\ tally.static = 1
    /\ GetStats(selectorCache, performanceStats).cacheHitRate = [num |-> 1, den |-> 2]

-----------------------------------------------------------------------------
(* Pure functions of the selector manager, applied to enumerated arguments *)

\* Digit runs are at most MaxRun long.
MaxRun == 5

RECURSIVE Repeat(_, _)
Repeat(c, n) == IF n = 0 THEN <<>> ELSE <<c>> \o Repeat(c, n - 1)

DigitRuns(d) == {Repeat(d, n) : n \in 1..MaxRun}

\* URLs of the templates /h/<id>, /h/<id>/<id> and the same ending in _zpid,
\* their identifiers written with the digit d.
TemplateUrls(d) ==
    LET Tails == {<<>>, ZpidSuffix} IN
    {<<"/", "h", "/">> \o r \o e : r \in DigitRuns(d), e \in Tails}
    \cup {<<"/", "h", "/">> \o r \o <<"/">> \o q \o e :
            r \in DigitRuns(d), q \in DigitRuns(d), e \in Tails}

\* The template of a URL: each maximal run of digits collapsed to one "N".
RECURSIVE Template(_)
Template(u) ==
    IF u = <<>> THEN <<>>
    ELSE IF IsDigit(u[1])
         THEN <<"N">> \o Template(SubSeq(u, RunEnd(u, 1) + 1, Len(u)))
         ELSE <<u[1]>> \o Template(Tail(u))

UrlPairs ==
    {[fn |-> "getUrlPattern", a |-> a, b |-> b] :
        a \in TemplateUrls("1"), b \in TemplateUrls("2")}

\* https://www.zillow.com/homedetails/<address-slug>/<zpid>_zpid/
DetailUrl(slug, zpid) ==
    <<"h", "t", "t", "p", "s", ":", "/", "/", "w", "w", "w", ".", "z", "i", "l", "l", "o", "w", ".", "c", "o", "m", "/", "h", "o", "m", "e", "d", "e", "t", "a", "i", "l", "s", "/">>
        \o slug \o <<"/">> \o zpid \o ZpidSuffix \o <<"/">>

AddressSlugs ==
    { <<"1", "2", "3", "-", "m", "a", "i", "n", "-", "s", "t">>,
      <<"4", "5", "6", "-", "o", "a", "k", "-", "a", "v", "e">>,
      <<"9", "-", "e", "l", "m", "-", "s", "t", "-", "7", "8", "7", "0", "1">> }

Zpids == { <<"1", "2", "3", "4", "5", "6">>, <<"7", "8", "9", "0", "1", "2">>, <<"4", "2">> }

DetailUrls == {DetailUrl(slug, zpid) : slug \in AddressSlugs, zpid \in Zpids}

DetailUrlPairs ==
    {[fn |-> "getUrlPattern", a |-> a, b |-> b] : a \in DetailUrls, b \in DetailUrls}

InitUrl ==
    /\ ManagerInit
    /\ CrawlIdle
    /\ arg \in {x \in UrlPairs : Template(x.a) = Template(x.b)} \cup DetailUrlPairs
    /\ res = NoArg

\* getUrlPattern is applied to both URLs of the pair.
PatternsTaken ==
    /\ res = NoArg
    /\ arg.fn = "getUrlPattern"
    /\ res' = [a |-> getUrlPattern(arg.a), b |-> getUrlPattern(arg.b)]
    /\ UNCHANGED <<arg, managerVars, crawlVars>>

NextUrl == PatternsTaken

SpecUrl == InitUrl /\ [][NextUrl]_vars

\* C10: two URLs of one template that differ only in their numeric
\* identifiers, however many digit runs of whatever length they hold, are
\* given the same pattern by getUrlPattern.
C10_SamePattern ==
    (res # NoArg /\ arg.fn = "getUrlPattern" /\ Template(arg.a) = Template(arg.b))
        => res.a = res.b

\* C11: any two property-detail URLs .../homedetails/<address-slug>/<zpid>_zpid/
\* are given the same pattern, whatever their slugs and zpids, so that the
\* cache key of a field is the same for all detail pages.
C11_DetailPagesShareKey ==
    (res # NoArg /\ arg.a \in DetailUrls /\ arg.b \in DetailUrls)
        => /\ res.a = res.b
           /\ CacheKey("detail", "price", Str(arg.a)) = CacheKey("detail", "price", Str(arg.b))

-----------------------------------------------------------------------------
(* The normalizers, applied to enumerated arguments *)

\* Texts a price, a bed or bath count are read from: a prefix, a number as
\* the page writes it, a suffix.
NormalizerTexts ==
    LET Prefixes == { <<>>, <<"$">>, <<"-">>, <<"a", "p", "p", "r", "o", "x", ".", " ">> }
        Bodies == { <<>>, <<"0">>, <<"3">>, <<"2", ".", "5">>, <<"5", "0", "0">>,
                    <<"1", ",", "2", "5", "0", ",", "0", "0", "0">>,
                    <<".">> }
        Suffixes == { <<>>, <<"K">>, <<" ", "b", "e", "d", "r", "o", "o", "m", "s">>,
                      <<" ", "b", "a", "t", "h", "s">> }
    IN {p \o b \o q : p \in Prefixes, b \in Bodies, q \in Suffixes}

\* The values a normalizer is called with: missing, a text, a number.
NormalizerInputs ==
    {Null, Number(FALSE, 0, <<>>), Number(FALSE, 3, <<>>)}
        \cup {Str(text) : text \in NormalizerTexts}

\* Strings and URLs an identifier is read from.
ZpidTexts ==
    LET Heads == { <<>>, <<"/">>, <<"a">>, <<"/", "1", "2", "/">>,
                   <<"/", "h", "o", "m", "e", "d", "e", "t", "a", "i", "l", "s", "/", "9", "-", "e", "l", "m", "-", "s", "t", "/">> }
        Runs == { <<>>, <<"7">>, <<"1", "2", "3", "4", "5", "6", "7", "8", "9">> }
        Ends == { <<>>, <<"_", "z", "p", "i", "d">>, <<"_", "z", "p", "i", "d", "/">>,
                  <<"_", "z", "p", "i", "d", "/", "3", "4", "_", "z", "p", "i", "d">>, <<"/", "3", "4", "_", "z", "p", "i", "d", "/">> }
    IN {h \o d \o e : h \in Heads, d \in Runs, e \in Ends}

ZpidInputs == {Null, Number(FALSE, 3, <<>>)} \cup {Str(text) : text \in ZpidTexts}

\* URLs and paths given to normalizeUrl: absolute, relative with and without
\* a leading slash, empty, missing.
UrlTexts ==
    {head \o tail :
        head \in {<<>>, <<"/">>, <<"h", "t", "t", "p", ":", "/", "/">>, <<"h", "t", "t", "p", "s", ":", "/", "/">>, <<"h", "t", "t", "p", "s", ":", "/", "/", "w", "w", "w", ".", "z", "i", "l", "l", "o", "w", ".", "c", "o", "m", "/">>,
                  <<"h", "t", "t", "p", "d", "/">>, <<"n", "o", "t", "-", "a", "-", "u", "r", "l", "/">>},
        tail \in {<<>>, <<"h", "o", "m", "e", "d", "e", "t", "a", "i", "l", "s", "/", "1", "2", "3", "-", "m", "a", "i", "n", "-", "s", "t", "/", "1", "2", "3", "4", "5", "6", "_", "z", "p", "i", "d", "/">>, <<"b", "/", "x">>}}
UrlInputs == {Null} \cup {Str(s) : s \in UrlTexts}

NormalizerCalls ==
    {[fn |-> fn, x |-> x] : fn \in {"cleanPrice", "extractNumber"}, x \in NormalizerInputs}
    \cup {[fn |-> "extractZpidFromUrl", x |-> x] : x \in ZpidInputs}
    \cup {[fn |-> "normalizeUrl", x |-> x] : x \in UrlInputs}

InitNorm ==
    /\ ManagerInit
    /\ CrawlIdle
    /\ arg \in NormalizerCalls
    /\ res = NoArg

\* The normalizer applied once, and applied to its own result.
Twice(once, again) == [once |-> once, twice |-> IF once = Thrown THEN Thrown ELSE again]

CleanPriceApplied ==
    /\ res = NoArg
    /\ arg.fn = "cleanPrice"
    /\ res' = Twice(cleanPrice(arg.x), cleanPrice(cleanPrice(arg.x)))
    /\ UNCHANGED <<arg, managerVars, crawlVars>>

ExtractNumberApplied ==
    /\ res = NoArg
    /\ arg.fn = "extractNumber"
    /\ res' = Twice(extractNumber(arg.x), extractNumber(extractNumber(arg.x)))
    /\ UNCHANGED <<arg, managerVars, crawlVars>>

ExtractZpidApplied ==
    /\ res = NoArg
    /\ arg.fn = "extractZpidFromUrl"
    /\ res' = Twice(extractZpidFromUrl(arg.x), extractZpidFromUrl(extractZpidFromUrl(arg.x)))
    /\ UNCHANGED <<arg, managerVars, crawlVars>>

NormalizeUrlApplied ==
    /\ res = NoArg
    /\ arg.fn = "normalizeUrl"
    /\ res' = Twice(normalizeUrl(arg.x), normalizeUrl(normalizeUrl(arg.x)))
    /\ UNCHANGED <<arg, managerVars, crawlVars>>

NextNorm ==
    \/ CleanPriceApplied
    \/ ExtractNumberApplied
    \/ ExtractZpidApplied
    \/ NormalizeUrlApplied

SpecNorm == InitNorm /\ [][NextNorm]_vars

Applied(fn) == res # NoArg /\ arg.fn = fn

Letters == {Upper[n] : n \in 1..Len(Upper)} \cup {Lower[n] : n \in 1..Len(Lower)}

\* C12 (as claimed): cleanPrice gives the number of a price written with a
\* currency sign and thousands separators ("$1,250,000" gives 1250000), null
\* for the empty or missing input, and returns unchanged, as a string, an
\* input with a non-numeric remainder such as a magnitude suffix ("$500K").
C12_CleanPrice ==
    Applied("cleanPrice") =>
        /\ arg.x = Str(<<"$", "1", ",", "2", "5", "0", ",", "0", "0", "0">>)
                => res.once = Number(FALSE, 1250000, <<>>)
        /\ arg.x \in {Null, Str(<<>>)} => res.once = Null
        /\ (IsStr(arg.x) /\ \E n \in 1..Len(arg.x.s) : arg.x.s[n] \in Letters)
                => res.once = arg.x

\* C13 (as claimed): cleanPrice and extractNumber never raise and are
\* idempotent: applied to their own result they give that result again.
C13_NormalizersIdempotent ==
    (Applied("cleanPrice") \/ Applied("extractNumber")) =>
        /\ res.once # Thrown
        /\ res.twice # Thrown
        /\ res.twice = res.once

\* C14 (as claimed): extractNumber gives the value of the first run of digits
\* and dots ("3 bedrooms" gives 3, "2.5 baths" gives 2.5), null when the input
\* is empty, missing or has no digit, and never NaN.
C14_ExtractNumber ==
    Applied("extractNumber") =>
        /\ res.once # NaN
        /\ arg.x = Str(<<"3", " ", "b", "e", "d", "r", "o", "o", "m", "s">>)
                => res.once = Number(FALSE, 3, <<>>)
        /\ arg.x = Str(<<"2", ".", "5", " ", "b", "a", "t", "h", "s">>)
                => res.once = Number(FALSE, 2, <<"5">>)
        /\ (arg.x = Null \/ (IsStr(arg.x) /\ \A n \in 1..Len(arg.x.s) : ~IsDigit(arg.x.s[n])))
                => res.once = Null

\* The digit runs of s that end right before _zpid, by their first position;
\* with slash, only those that start right after a "/".
ZpidRuns(s, slash) ==
    {i \in 1..Len(s) :
        /\ IsDigit(s[i])
        /\ i = 1 \/ ~IsDigit(s[i - 1])
        /\ slash => (i > 1 /\ s[i - 1] = "/")
        /\ Len(s) >= RunEnd(s, i) + Len(ZpidSuffix)
        /\ SubSeq(s, RunEnd(s, i) + 1, RunEnd(s, i) + Len(ZpidSuffix)) = ZpidSuffix}

ZpidExpected(x, slash) ==
    IF x = Null \/ x = Str(<<>>) \/ ZpidRuns(x.s, slash) = {} THEN Null
    ELSE Str(SubSeq(x.s, Min(ZpidRuns(x.s, slash)), RunEnd(x.s, Min(ZpidRuns(x.s, slash)))))

\* C15 (as claimed): extractZpidFromUrl gives, as a string, the first digit run
\* right before _zpid anywhere in the string, and null for an empty input or
\* one without such a run.
C15_ZpidAnywhere ==
    (Applied("extractZpidFromUrl") /\ (arg.x = Null \/ IsStr(arg.x)))
        => res.once = ZpidExpected(arg.x, FALSE)

\* C15 (amended): extractZpidFromUrl gives, as a string, the first digit run
\* that starts right after a "/" and ends right before _zpid, and null for an
\* empty input or one without such a run.
C15_ZpidAfterSlash ==
    (Applied("extractZpidFromUrl") /\ (arg.x = Null \/ IsStr(arg.x)))
        => res.once = ZpidExpected(arg.x, TRUE)

C15_Witness ==
    /\ Applied("extractZpidFromUrl")
    /\ arg.x = Str(<<"/", "1", "2", "/", "7", "_", "z", "p", "i", "d", "/", "3", "4", "_", "z", "p", "i", "d">>)
    /\ res.once = Str(<<"7">>)

-----------------------------------------------------------------------------
(* main.js: detail pages through the crawler's request handler *)

\* At most MaxRequests requests are queued.
MaxRequests == 2

\* String.prototype.includes
Includes(s, k) == \E n \in 0..(Len(s) - Len(k)) : SubSeq(s, n + 1, n + Len(k)) = k

\* The built-in keywords the model keeps, of the 43 of the source.
BuiltInKeywords ==
    << <<"f", "i", "x", "e", "r", "-", "u", "p", "p", "e", "r">>,
       <<"n", "e", "e", "d", "s", " ", "T", "L", "C">>,
       <<"f", "i", "x", "e", "r">>,
       <<"m", "o", "l", "d">> >>

fixerUpperKeywords(keywords) ==
    LET all == BuiltInKeywords \o keywords IN
    [n \in 1..Len(all) |-> toLowerCase(all[n])]

\* { ...searchData, ...propertyData }: a key propertyData does not hold keeps
\* the value searchData gives it.
Spread(searchData, propertyData) ==
    Obj([name \in DOMAIN searchData.o \cup DOMAIN propertyData.o |->
            IF name \in DOMAIN propertyData.o /\ propertyData.o[name] # Null
            THEN propertyData.o[name]
            ELSE IF name \in DOMAIN searchData.o THEN searchData.o[name]
            ELSE Null])

\* processPropertyData, for the fields the model keeps.  An exception of
\* cleanPrice leaves through it.
processPropertyData(combinedData) ==
    Only1({IF price = Thrown THEN Thrown
           ELSE Obj([data.o EXCEPT !.price = price]) :
                data \in {combinedData},
                price \in {IF Truthy(combinedData.o.price)
                           THEN cleanPrice(combinedData.o.price) ELSE combinedData.o.price}})

\* (processedData.description || '').toLowerCase(), and the keywords it includes.
matchedKeywords(processedData, keywords) ==
    LET description ==
            IF Truthy(processedData.o.description)
            THEN toLowerCase(processedData.o.description.s) ELSE <<>>
    IN SelectSeq(fixerUpperKeywords(keywords), LAMBDA keyword : Includes(description, keyword))

\* Mutant: mode "all" decided as mode "any".
shouldSaveAnyForAll(keywordFilterMode, keywords, matched) ==
    CASE keywordFilterMode = "none" -> TRUE
      [] keywordFilterMode \in {"any", "all"} ->
            Len(fixerUpperKeywords(keywords)) = 0 \/ Len(matched) > 0
      [] OTHER -> FALSE

shouldSave(keywordFilterMode, keywords, matched) ==
    CASE keywordFilterMode = "none" -> TRUE
      [] keywordFilterMode = "any" ->
            Len(fixerUpperKeywords(keywords)) = 0 \/ Len(matched) > 0
      [] keywordFilterMode = "all" ->
            Len(fixerUpperKeywords(keywords)) = 0
                \/ Len(matched) = Len(fixerUpperKeywords(keywords))
      [] OTHER -> FALSE

\* Texts of pages and cards.
PriceText == <<"$", "2", "5", "0", ",", "0", "0", "0">>
CardPriceTexts == {<<>>, PriceText, <<"C", "a", "l", "l">>}
DescriptionTexts ==
    { <<"F", "i", "x", "e", "r">>,
      <<"c", "o", "z", "y">>,
      <<"M", "o", "l", "d", ",", " ", "f", "i", "x", "e", "r", "-", "u", "p", "p", "e", "r", ",", " ", "n", "e", "e", "d", "s", " ", "T", "L", "C">> }

\* A detail page showing the given texts at the first selector of each
\* hierarchy and at the generated selector (<<>>: nothing matches there).
DetailPage(price, description, generated) ==
    [kind |-> "page", blocked |-> FALSE, cards |-> <<>>,
     q |-> [x \in Walked("detail", "price") \cup Walked("detail", "description")
                    \cup AISelectors |->
                CASE x = SelectorsFor("detail", "price")[1] /\ price # <<>> -> <<El(price)>>
                  [] x = SelectorsFor("detail", "description")[1] /\ description # <<>> ->
                        <<El(description)>>
                  [] x \in AISelectors /\ generated # <<>> -> <<El(generated)>>
                  [] OTHER -> <<>>]]

\* A page on which checkForBlocking answers true.
BlockedPage == [DetailPage(<<>>, <<>>, <<>>) EXCEPT !.blocked = TRUE]

CrawlPages ==
    {BlockedPage} \cup
    {DetailPage(price, description, <<>>) :
        price \in {<<>>, PriceText}, description \in {<<>>} \cup DescriptionTexts}
    \cup {DetailPage(<<>>, description, PriceText) : description \in DescriptionTexts}

\* The DETAIL request queued for a start URL in details mode.
DetailsRequest(url) ==
    [url |-> url,
     userData |-> [label |-> "DETAIL", searchData |-> Null,
                   mode |-> "details", source |-> "user_provided"]]

\* The DETAIL request queued for a property of a search page in comprehensive mode.
DiscoveredRequest(url, property) ==
    [url |-> url,
     userData |-> [label |-> "DETAIL", searchData |-> property,
                   mode |-> "comprehensive", source |-> "discovered"]]

RequestsFor(mode, url) ==
    IF mode = "details" THEN {DetailsRequest(url)}
    ELSE {DiscoveredRequest(property.o.url, property) :
            property \in {SearchCardData([text |-> text, href |-> url, details |-> <<>>], UrlC) :
                            text \in CardPriceTexts}}

\* The queue holds one request per URL.
RequestUrls == <<UrlA, UrlB, UrlC>>

RECURSIVE Queues(_, _)
Queues(mode, n) ==
    IF n = 0 THEN {<<>>}
    ELSE {Append(q, r) : q \in Queues(mode, n - 1), r \in RequestsFor(mode, RequestUrls[n])}

\* The keys given, the others at their defaults.
Given(keys) == keys @@ NoInput

\* enableAI is false only with the other keys at one value each.
Inputs ==
    {Given(keys) : keys \in
        [mode : {"details", "comprehensive"},
         keywords : {<<>>, <<<<"C", "o", "z", "y">>>>},
         keywordFilterMode : {"none", "any", "all"},
         maxItems : {0, 1},
         testMode : BOOLEAN,
         enableAI : {TRUE}]
        \cup
        [mode : {"details", "comprehensive"},
         keywords : {<<>>},
         keywordFilterMode : {"none"},
         maxItems : {0},
         testMode : {FALSE},
         enableAI : {FALSE}]}

InitCrawl ==
    /\ ManagerInit
    /\ PureIdle
    /\ input \in Inputs
    /\ requestQueue \in UNION {Queues(input.mode, n) : n \in 1..MaxRequests}
    /\ dataset = <<>>
    /\ counters = ZeroCounters
    /\ aborted = FALSE
    /\ zipCodeStats = <<>>
    /\ enqueued = {requestQueue[n].url : n \in 1..Len(requestQueue)}

\* A step of task t that leaves the selector manager alone.
Frame(t, f) == Step(t, Out(f, selectorCache, performanceStats))

Count(name) == [counters EXCEPT ![name] = @ + 1]

\* The crawler hands the next request to the request handler, which calls
\* handleDetailPage: modeStats.detailPages++, then await checkForBlocking(page).
HandleDetailPageCall(t) ==
    /\ task[t].pc = "idle"
    /\ ~aborted
    /\ requestQueue # <<>>
    /\ Head(requestQueue).userData.label = "DETAIL"
    /\ \E page \in CrawlPages :
         Frame(t, [Idle EXCEPT !.pc = "hdp_block", !.op = "handleDetailPage",
                               !.handler = "DETAIL", !.request = Head(requestQueue),
                               !.page = page, !.url = Head(requestQueue).url])
    /\ requestQueue' = Tail(requestQueue)
    /\ counters' = Count("detailPages")
    /\ UNCHANGED <<input, dataset, aborted, pureVars, zipCodeStats, enqueued>>

\* Mutant: the catch block counts the page as filtered out as well.
CatchFiltered(t) ==
    /\ counters' = [counters EXCEPT !.failedExtractions = @ + 1, !.keywordFiltered = @ + 1]
    /\ IF input.testMode
       THEN /\ dataset' = Append(dataset, [success |-> FALSE, url |-> task[t].request.url,
                                           mode |-> task[t].request.userData.mode])
            /\ Frame(t, [task[t] EXCEPT !.pc = "hdp_errpush", !.caught = TRUE])
       ELSE /\ dataset' = dataset
            /\ Frame(t, [task[t] EXCEPT !.pc = "rh_after", !.caught = TRUE])
    /\ UNCHANGED <<input, requestQueue, aborted, pureVars, zipCodeStats, enqueued>>

\* The catch block of handleDetailPage: failedExtractions++, and in test mode
\* an error record is pushed.
Catch(t) ==
    /\ counters' = Count("failedExtractions")
    /\ IF input.testMode
       THEN /\ dataset' = Append(dataset, [success |-> FALSE, url |-> task[t].request.url,
                                           mode |-> task[t].request.userData.mode])
            /\ Frame(t, [task[t] EXCEPT !.pc = "hdp_errpush", !.caught = TRUE])
       ELSE /\ dataset' = dataset
            /\ Frame(t, [task[t] EXCEPT !.pc = "rh_after", !.caught = TRUE])
    /\ UNCHANGED <<input, requestQueue, aborted, pureVars, zipCodeStats, enqueued>>

\* After await checkForBlocking(page): a blocked page throws.
HDPBlockChecked(t) ==
    /\ At(t, "hdp_block")
    /\ IF task[t].page.blocked
       THEN Catch(t)
       ELSE /\ Frame(t, [task[t] EXCEPT !.pc = "hdp_wait"])
            /\ UNCHANGED <<crawlVars, pureVars>>

\* After await page.waitForTimeout(2000): extractPropertyDetails is called.
HDPWaited(t) ==
    /\ At(t, "hdp_wait")
    /\ Apply(t, ExtractPropertyDetailsStart(task[t], selectorCache, performanceStats))

\* After await extractPropertyDetails(...): the data are merged with the
\* search data and processPropertyData is called.
HDPExtracted(t) ==
    /\ At(t, "hdp_extracted")
    /\ \E searchData \in {task[t].request.userData.searchData}, propertyData \in {task[t].ret} :
         \E combinedData \in {IF Truthy(searchData) THEN Spread(searchData, propertyData)
                               ELSE propertyData} :
            Frame(t, [task[t] EXCEPT !.pc = "hdp_processed",
                                     !.processed = processPropertyData(combinedData)])
    /\ UNCHANGED <<crawlVars, pureVars>>

\* After await processPropertyData(...): its exception lands in the catch
\* block; otherwise the keyword filter decides whether the record is pushed.
HDPProcessed(t) ==
    /\ At(t, "hdp_processed")
    /\ IF task[t].processed = Thrown
       THEN Catch(t)
       ELSE LET matched == matchedKeywords(task[t].processed, input.keywords) IN
            IF shouldSave(input.keywordFilterMode, input.keywords, matched)
            THEN /\ dataset' = Append(dataset,
                        [success |-> TRUE, url |-> task[t].request.url,
                         data |-> task[t].processed.o,
                         isFixerUpper |-> Len(matched) > 0,
                         matchedKeywords |-> matched,
                         mode |-> task[t].request.userData.mode,
                         source |-> task[t].request.userData.source,
                         selectorStats |->
                            IF input.enableAI
                            THEN GetStats(selectorCache, performanceStats) ELSE Null])
                 /\ Frame(t, [task[t] EXCEPT !.pc = "hdp_pushed"])
                 /\ UNCHANGED <<input, requestQueue, counters, aborted, pureVars, zipCodeStats, enqueued>>
            ELSE /\ counters' = [counters EXCEPT !.keywordFiltered = @ + 1,
                                                 !.itemsCounter = @ + 1]
                 /\ Frame(t, [task[t] EXCEPT !.pc = "rh_after"])
                 /\ UNCHANGED <<input, requestQueue, dataset, aborted, pureVars, zipCodeStats, enqueued>>

\* After await Actor.pushData(result).
HDPPushed(t) ==
    /\ At(t, "hdp_pushed")
    /\ counters' = [counters EXCEPT !.successfulExtractions = @ + 1,
                                    !.keywordMatches = @ + 1,
                                    !.itemsCounter = @ + 1]
    /\ Frame(t, [task[t] EXCEPT !.pc = "rh_after"])
    /\ UNCHANGED <<input, requestQueue, dataset, aborted, pureVars, zipCodeStats, enqueued>>

\* After await Actor.pushData(error record) in the catch block.
HDPErrorPushed(t) ==
    /\ At(t, "hdp_errpush")
    /\ Frame(t, [task[t] EXCEPT !.pc = "rh_after"])
    /\ UNCHANGED <<crawlVars, pureVars>>

\* The end of the request handler: the maxItems check.
RequestHandlerEnd(t) ==
    /\ At(t, "rh_after")
    /\ aborted' = (aborted \/ (input.maxItems # 0 /\ counters.itemsCounter >= input.maxItems))
    /\ Frame(t, Idle)
    /\ UNCHANGED <<input, requestQueue, dataset, counters, pureVars, zipCodeStats, enqueued>>

\* failedRequestHandler: a request that failed on every retry.
FailedRequest ==
    /\ ~aborted
    /\ requestQueue # <<>>
    /\ requestQueue' = Tail(requestQueue)
    /\ counters' = Count("failedExtractions")
    /\ zipCodeStats' =
            LET userData == Head(requestQueue).userData IN
            IF "zipCode" \in DOMAIN userData /\ userData.zipCode \in DOMAIN zipCodeStats
            THEN [zipCodeStats EXCEPT ![userData.zipCode].errors = @ + 1]
            ELSE zipCodeStats
    /\ UNCHANGED <<managerVars, input, dataset, aborted, pureVars, enqueued>>

NextCrawl ==
    \/ \E t \in Tasks : HandleDetailPageCall(t)
    \/ \E t \in Tasks : HDPBlockChecked(t)
    \/ \E t \in Tasks : HDPWaited(t)
    \/ \E t \in Tasks : EFCached(t)
    \/ \E t \in Tasks : EFStatic(t)
    \/ \E t \in Tasks : AIContent(t)
    \/ \E t \in Tasks : AICreate(t)
    \/ \E t \in Tasks : AITry(t)
    \/ \E t \in Tasks : EFAIReturn(t)
    \/ \E t \in Tasks : EPDField(t)
    \/ \E t \in Tasks : EPDTail(t)
    \/ \E t \in Tasks : HDPExtracted(t)
    \/ \E t \in Tasks : HDPProcessed(t)
    \/ \E t \in Tasks : HDPPushed(t)
    \/ \E t \in Tasks : HDPErrorPushed(t)
    \/ \E t \in Tasks : RequestHandlerEnd(t)
    \/ FailedRequest

SpecCrawl == InitCrawl /\ [][NextCrawl]_vars

\* The record handleDetailPage pushed for the request of frame f.
Emitted(f) ==
    \E n \in 1..Len(dataset) : dataset[n].success /\ dataset[n].url = f.request.url

\* C7: a detail page that is not blocked is handled without error, whichever
\* of its fields are unresolved and whatever search data its request carries:
\* the catch block does not run (failedExtractions is not incremented for it)
\* and its record is emitted whenever the keyword filter passes.
C7_MissingFieldNeverAborts ==
    \A t \in Tasks :
        (task[t].handler = "DETAIL" /\ task[t].pc = "rh_after" /\ ~task[t].page.blocked)
            => /\ ~task[t].caught
               /\ task[t].processed # Thrown
               /\ shouldSave(input.keywordFilterMode, input.keywords,
                             matchedKeywords(task[t].processed, input.keywords))
                    => Emitted(task[t])

\* The keyword set of the run: the built-in keywords and those of the input.
KeywordSet == Range(BuiltInKeywords) \cup Range(input.keywords)

\* The keyword occurs in the description of the frame's data, whatever the case.
Occurs(keyword, f) ==
    /\ Truthy(f.processed.o.description)
    /\ Includes(toLowerCase(f.processed.o.description.s), toLowerCase(keyword))

\* A detail page whose handler has decided whether to save it.
Decided(f) == f.handler = "DETAIL" /\ f.pc = "rh_after" /\ ~f.caught

\* C16: the record of a detail page is saved in mode "any" iff at least one
\* keyword of the keyword set occurs in its description, in mode "all" iff
\* every keyword does, and in mode "none" always; case is ignored.
C16_KeywordFilter ==
    \A t \in Tasks :
        Decided(task[t]) =>
            (Emitted(task[t]) <=>
                CASE input.keywordFilterMode = "any" ->
                        \E keyword \in KeywordSet : Occurs(keyword, task[t])
                  [] input.keywordFilterMode = "all" ->
                        \A keyword \in KeywordSet : Occurs(keyword, task[t])
                  [] input.keywordFilterMode = "none" -> TRUE)

C16_Witness ==
    \E t \in Tasks :
        /\ Decided(task[t])
        /\ input.keywordFilterMode = "all"
        /\ Emitted(task[t])
        /\ \E n \in 1..Len(dataset) : Len(dataset[n].matchedKeywords) = Len(BuiltInKeywords)

\* C17: when the input sets enableAI to false, no call to the generative
\* client is made at any point of the run, whatever selectors fail.
C17_NoAICallWhenDisabled ==
    ~input.enableAI =>
        /\ performanceStats.aiCalls = 0
        /\ \A t \in Tasks : AICallsMade(task[t]) = 0

-----------------------------------------------------------------------------
(* Zip code searches: generateSearchUrls, the queue of the zipcode and
   comprehensive modes, handleZipcodeSearch *)

\* Cards on a search page.
MaxCards == 2
\* maxPages and maxProperties of the input are at most this.
MaxLimit == 2
\* Discovery searches kept, from the head of the list.
MaxDiscovery == 2

ZipCode == <<"7", "8", "7", "0", "1">>

\* /^\d{5}(-\d{4})?$/
isValidZipCode(zipCode) ==
    LET digits(a, b) == \A n \in a..b : IsDigit(zipCode[n]) IN
    \/ Len(zipCode) = 5 /\ digits(1, 5)
    \/ Len(zipCode) = 10 /\ digits(1, 5) /\ zipCode[6] = "-" /\ digits(7, 10)

baseUrl == <<"h", "t", "t", "p", "s", ":", "/", "/", "w", "w", "w", ".", "z", "i", "l", "l", "o", "w", ".", "c", "o", "m", "/", "h", "o", "m", "e", "s", "/", "f", "o", "r", "_", "s", "a", "l", "e">>

\* String(n), for a natural number.
PageDigit(page) == CHOOSE c \in Digits : DigitValue[c] = page
RECURSIVE Decimal(_)
Decimal(n) == IF n < 10 THEN <<PageDigit(n)>> ELSE Decimal(n \div 10) \o <<PageDigit(n % 10)>>

Integer(n) == Number(FALSE, n, <<>>)

RECURSIVE Join(_)
Join(list) ==
    Only1({IF parts = <<>> THEN <<>>
           ELSE IF Len(parts) = 1 THEN parts[1]
           ELSE parts[1] \o <<",">> \o Join(Tail(parts)) : parts \in {list}})

\* JSON.stringify, for the values of the search state: integers, strings
\* without characters to escape, booleans, arrays and objects.
RECURSIVE Stringify(_)
Stringify(value) ==
    Only1({
    CASE v.t = "null" -> <<"n", "u", "l", "l">>
      [] v.t = "num" -> (IF v.neg THEN <<"-">> ELSE <<>>) \o Decimal(v.int)
      [] v.t = "str" -> <<"\"">> \o v.s \o <<"\"">>
      [] v.t = "bool" -> IF v.b THEN <<"t", "r", "u", "e">> ELSE <<"f", "a", "l", "s", "e">>
      [] v.t = "list" ->
            <<"[">> \o Join([n \in 1..Len(v.els) |-> Stringify(v.els[n])]) \o <<"]">>
      [] v.t = "dict" ->
            <<"{">>
            \o Join([n \in 1..Len(v.m) |->
                        <<"\"">> \o v.m[n][1] \o <<"\"", ":">> \o Stringify(v.m[n][2])])
            \o <<"}">> : v \in {value}})

\* The characters URLSearchParams leaves as they are, and the codes of the
\* others that the search state holds.
Unreserved ==
    Range(Upper) \cup Range(Lower) \cup Digits \cup {"*", "-", ".", "_"}
PercentCodes ==
    [c \in {"{", "}", "\"", ":", ",", "[", "]"} |->
        CASE c = "{" -> <<"%", "7", "B">>
          [] c = "}" -> <<"%", "7", "D">>
          [] c = "\"" -> <<"%", "2", "2">>
          [] c = ":" -> <<"%", "3", "A">>
          [] c = "," -> <<"%", "2", "C">>
          [] c = "[" -> <<"%", "5", "B">>
          [] c = "]" -> <<"%", "5", "D">>]

\* URLSearchParams.toString() of one value (application/x-www-form-urlencoded).
RECURSIVE FormEncode(_)
FormEncode(str) ==
    Only1({IF s = <<>> THEN <<>>
           ELSE IF Len(s) = 1
           THEN (IF s[1] \in Unreserved THEN s
                 ELSE IF s[1] = " " THEN <<"+">>
                 ELSE PercentCodes[s[1]])
           ELSE FormEncode(SubSeq(s, 1, Len(s) \div 2))
                   \o FormEncode(SubSeq(s, Len(s) \div 2 + 1, Len(s))) : s \in {str}})

\* this.propertyTypes
propertyTypes ==
    Dict(<< <<<<"a", "l", "l">>, Dict(<<>>)>>,
            <<<<"h", "o", "u", "s", "e", "s">>, Dict(<< <<<<"h", "o", "u", "s", "e", "s">>, Dict(<< <<<<"v", "a", "l", "u", "e">>, Bool(TRUE)>> >>)>> >>)>>,
            <<<<"c", "o", "n", "d", "o", "s">>, Dict(<< <<<<"c", "o", "n", "d", "o">>, Dict(<< <<<<"v", "a", "l", "u", "e">>, Bool(TRUE)>> >>)>> >>)>>,
            <<<<"t", "o", "w", "n", "h", "o", "m", "e", "s">>, Dict(<< <<<<"t", "o", "w", "n", "h", "o", "u", "s", "e">>, Dict(<< <<<<"v", "a", "l", "u", "e">>, Bool(TRUE)>> >>)>> >>)>>,
            <<<<"m", "u", "l", "t", "i", "-", "f", "a", "m", "i", "l", "y">>, Dict(<< <<<<"m", "u", "l", "t", "i", "F", "a", "m", "i", "l", "y">>, Dict(<< <<<<"v", "a", "l", "u", "e">>, Bool(TRUE)>> >>)>> >>)>>,
            <<<<"l", "o", "t", "s">>, Dict(<< <<<<"l", "a", "n", "d">>, Dict(<< <<<<"v", "a", "l", "u", "e">>, Bool(TRUE)>> >>)>> >>)>>,
            <<<<"m", "a", "n", "u", "f", "a", "c", "t", "u", "r", "e", "d">>, Dict(<< <<<<"m", "a", "n", "u", "f", "a", "c", "t", "u", "r", "e", "d">>, Dict(<< <<<<"v", "a", "l", "u", "e">>, Bool(TRUE)>> >>)>> >>)>> >>)

\* this.daysOnMarketMap
daysOnMarketMap ==
    Dict(<< <<<<"a", "n", "y">>, Null>>, <<<<"1">>, Str(<<"1">>)>>, <<<<"7">>, Str(<<"7">>)>>,
            <<<<"1", "4">>, Str(<<"1", "4">>)>>, <<<<"3", "0">>, Str(<<"3", "0">>)>>, <<<<"9", "0">>, Str(<<"9", "0">>)>>,
            <<<<"1", "8", "0">>, Str(<<"1", "8", "0">>)>> >>)

\* Object.assign(target, source)
RECURSIVE Assign(_, _)
Assign(target, source) ==
    IF source.m = <<>> THEN target
    ELSE Assign(Put(target, source.m[1][1], source.m[1][2]), Dict(Tail(source.m)))

\* if (filters[key]) filterState[key] = filters[key], for the keys in turn.
RECURSIVE Copied(_, _, _)
Copied(filterState, filters, keys) ==
    IF keys = <<>> THEN filterState
    ELSE Copied(IF Truthy(Get(filters, Head(keys)))
                THEN Put(filterState, Head(keys), Get(filters, Head(keys)))
                ELSE filterState,
                filters, Tail(keys))

\* buildFilterState.  The values of propertyType and daysOnMarket the model
\* gives it are keys of propertyTypes and daysOnMarketMap.
buildFilterState(filters) ==
    LET price == Get(filters, <<"p", "r", "i", "c", "e">>)
        withPrice ==
            IF Truthy(price)
            THEN Put(Dict(<<>>), <<"p", "r", "i", "c", "e">>, Copied(Dict(<<>>), price, <<<<"m", "i", "n">>, <<"m", "a", "x">>>>))
            ELSE Dict(<<>>)
        propertyType == Get(filters, <<"p", "r", "o", "p", "e", "r", "t", "y", "T", "y", "p", "e">>)
        withType ==
            IF Truthy(propertyType) /\ propertyType # Str(<<"a", "l", "l">>)
            THEN Assign(withPrice,
                        IF Has(propertyTypes, propertyType.s)
                        THEN Get(propertyTypes, propertyType.s) ELSE Dict(<<>>))
            ELSE withPrice
        daysOnMarket == Get(filters, <<"d", "a", "y", "s", "O", "n", "M", "a", "r", "k", "e", "t">>)
        withDays ==
            IF Truthy(daysOnMarket) /\ daysOnMarket # Str(<<"a", "n", "y">>)
            THEN Put(withType, <<"d", "a", "y", "s", "O", "n", "Z", "i", "l", "l", "o", "w">>,
                     Dict(<< <<<<"v", "a", "l", "u", "e">>, Get(daysOnMarketMap, daysOnMarket.s)>> >>))
            ELSE withType
    IN Copied(withDays, filters,
              <<<<"d", "a", "y", "s", "O", "n", "Z", "i", "l", "l", "o", "w">>, <<"i", "s", "A", "u", "c", "t", "i", "o", "n">>, <<"i", "s", "F", "o", "r", "e", "c", "l", "o", "s", "u", "r", "e", "A", "u", "c", "t", "i", "o", "n">>,
                <<"i", "s", "P", "r", "e", "F", "o", "r", "e", "c", "l", "o", "s", "u", "r", "e", "A", "u", "c", "t", "i", "o", "n">>, <<"i", "s", "B", "a", "n", "k", "O", "w", "n", "e", "d">>, <<"b", "u", "i", "l", "t">>, <<"s", "q", "f", "t">>,
                <<"l", "o", "t", "S", "i", "z", "e">>, <<"b", "e", "d", "s">>, <<"b", "a", "t", "h", "s">>>>)

\* generateSearchUrl
generateSearchUrl(zipCode, filters, page) ==
    LET searchState ==
            Dict(<< <<<<"p", "a", "g", "i", "n", "a", "t", "i", "o", "n">>, Dict(<< <<<<"c", "u", "r", "r", "e", "n", "t", "P", "a", "g", "e">>, Integer(page)>> >>)>>,
                    <<<<"u", "s", "e", "r", "s", "S", "e", "a", "r", "c", "h", "T", "e", "r", "m">>, Str(zipCode)>>,
                    <<<<"m", "a", "p", "B", "o", "u", "n", "d", "s">>, Dict(<<>>)>>,
                    <<<<"r", "e", "g", "i", "o", "n", "S", "e", "l", "e", "c", "t", "i", "o", "n">>,
                      List(<<Dict(<< <<<<"r", "e", "g", "i", "o", "n", "I", "d">>, Str(zipCode)>>,
                                     <<<<"r", "e", "g", "i", "o", "n", "T", "y", "p", "e">>, Integer(7)>> >>)>>)>>,
                    <<<<"i", "s", "M", "a", "p", "V", "i", "s", "i", "b", "l", "e">>, Bool(FALSE)>>,
                    <<<<"f", "i", "l", "t", "e", "r", "S", "t", "a", "t", "e">>, buildFilterState(filters)>>,
                    <<<<"i", "s", "L", "i", "s", "t", "V", "i", "s", "i", "b", "l", "e">>, Bool(TRUE)>> >>)
    IN Str(baseUrl \o <<"/", "?">> \o <<"s", "e", "a", "r", "c", "h", "Q", "u", "e", "r", "y", "S", "t", "a", "t", "e", "=">>
           \o FormEncode(Stringify(searchState)))

Value(v) == Dict(<< <<<<"v", "a", "l", "u", "e">>, v>> >>)

\* generatePriceBasedUrls: if (range.min) filters.price.min = range.min, ...
PriceFilters(min, max) ==
    Dict(<< <<<<"p", "r", "i", "c", "e">>,
              Dict((IF min # 0 THEN << <<<<"m", "i", "n">>, Integer(min)>> >> ELSE <<>>)
                   \o (IF max # 0 THEN << <<<<"m", "a", "x">>, Integer(max)>> >> ELSE <<>>))>> >>)

generatePriceBasedUrls ==
    << [label |-> "under_100k", filters |-> PriceFilters(0, 100000)],
       [label |-> "under_200k", filters |-> PriceFilters(0, 200000)],
       [label |-> "under_300k", filters |-> PriceFilters(0, 300000)],
       [label |-> "mid_range_deals", filters |-> PriceFilters(50000, 150000)] >>

generateTimeBasedUrls ==
    << [label |-> "long_market_90",
        filters |-> Dict(<< <<<<"d", "a", "y", "s", "O", "n", "Z", "i", "l", "l", "o", "w">>, Value(Str(<<"9", "0">>))>> >>)],
       [label |-> "long_market_180",
        filters |-> Dict(<< <<<<"d", "a", "y", "s", "O", "n", "Z", "i", "l", "l", "o", "w">>, Value(Str(<<"1", "8", "0">>))>> >>)],
       [label |-> "long_market_365",
        filters |-> Dict(<< <<<<"d", "a", "y", "s", "O", "n", "Z", "i", "l", "l", "o", "w">>, Value(Str(<<"3", "6", "5">>))>> >>)],
       [label |-> "recently_listed",
        filters |-> Dict(<< <<<<"d", "a", "y", "s", "O", "n", "Z", "i", "l", "l", "o", "w">>, Value(Str(<<"7">>))>> >>)] >>

\* The filters are this.propertyTypes[type].
generateTypeBasedUrls ==
    << [label |-> "houses_only", filters |-> Get(propertyTypes, <<"h", "o", "u", "s", "e", "s">>)],
       [label |-> "multi-family_only", filters |-> Get(propertyTypes, <<"m", "u", "l", "t", "i", "-", "f", "a", "m", "i", "l", "y">>)],
       [label |-> "manufactured_only", filters |-> Get(propertyTypes, <<"m", "a", "n", "u", "f", "a", "c", "t", "u", "r", "e", "d">>)] >>

generateDistressedPropertyUrls ==
    << [label |-> "auction_properties",
        filters |-> Dict(<< <<<<"i", "s", "A", "u", "c", "t", "i", "o", "n">>, Value(Bool(TRUE))>> >>)],
       [label |-> "foreclosure_properties",
        filters |-> Dict(<< <<<<"i", "s", "F", "o", "r", "e", "c", "l", "o", "s", "u", "r", "e", "A", "u", "c", "t", "i", "o", "n">>, Value(Bool(TRUE))>> >>)],
       [label |-> "pre_foreclosure_properties",
        filters |-> Dict(<< <<<<"i", "s", "P", "r", "e", "F", "o", "r", "e", "c", "l", "o", "s", "u", "r", "e", "A", "u", "c", "t", "i", "o", "n">>, Value(Bool(TRUE))>> >>)],
       [label |-> "bank_owned_properties",
        filters |-> Dict(<< <<<<"i", "s", "B", "a", "n", "k", "O", "w", "n", "e", "d">>, Value(Bool(TRUE))>> >>)] >>

\* The searches of generateDiscoveryUrls, each with the filters its URL is
\* generated from; an option is on unless it is false.
DiscoverySearches(options) ==
    << [label |-> "all_properties", filters |-> Dict(<<>>)] >>
    \o (IF options.includePriceSearches THEN generatePriceBasedUrls ELSE <<>>)
    \o (IF options.includeTimeSearches THEN generateTimeBasedUrls ELSE <<>>)
    \o (IF options.includeTypeSearches THEN generateTypeBasedUrls ELSE <<>>)
    \o (IF options.includeDistressedSearches THEN generateDistressedPropertyUrls ELSE <<>>)

generateDiscoveryUrls(zipCode, options) ==
    LET searches == DiscoverySearches(options) IN
    [n \in 1..Len(searches) |->
        [url |-> generateSearchUrl(zipCode, searches[n].filters, 1),
         label |-> searches[n].label]]

\* The primary search always; in the enhanced and comprehensive discovery
\* modes the first 5 or 10 discovery searches as well.
generateSearchUrls(zipCode, filters, discoveryMode) ==
    LET primary == <<[url |-> generateSearchUrl(zipCode, filters, 1), label |-> "primary"]>>
        discoveryUrls ==
            generateDiscoveryUrls(zipCode,
                [includePriceSearches |-> TRUE, includeTimeSearches |-> TRUE,
                 includeTypeSearches |-> FALSE,
                 includeDistressedSearches |-> discoveryMode = "comprehensive"])
        slice == IF discoveryMode = "comprehensive" THEN 10 ELSE 5
    IN IF discoveryMode \in {"enhanced", "comprehensive"}
       THEN primary \o SubSeq(discoveryUrls, 1, Min({Len(discoveryUrls), slice}))
       ELSE primary

\* requestQueue.addRequest: a request whose URL the queue was given before is
\* dropped.
AddRequest(qs, request) ==
    IF request.url \in qs.enqueued THEN qs
    ELSE [queue |-> Append(qs.queue, request), enqueued |-> qs.enqueued \cup {request.url}]

RECURSIVE AddRequests(_, _)
AddRequests(qs, requests) ==
    IF requests = <<>> THEN qs
    ELSE AddRequests(AddRequest(qs, Head(requests)), Tail(requests))

SearchRequest(url, zipCode, page, searchType, mode) ==
    [url |-> url,
     userData |-> [label |-> IF mode = "comprehensive" THEN "COMPREHENSIVE_SEARCH"
                             ELSE "ZIPCODE_SEARCH",
                   zipCode |-> zipCode, page |-> page, searchType |-> searchType,
                   mode |-> mode]]

\* The DETAIL request handleZipcodeSearch queues for a property.
ZipDetailRequest(property, zipCode) ==
    [url |-> property.o.url,
     userData |-> [label |-> "DETAIL", zipCode |-> zipCode, searchData |-> property,
                   mode |-> "comprehensive", source |-> "zipcode_search"]]

ValidZipCodes(in) ==
    SelectSeq(in.zipCodes, LAMBDA zipCode : isValidZipCode(zipCode))

\* The requests the zipcode and comprehensive modes queue before the crawl.
RECURSIVE ZipRequests(_, _)
ZipRequests(in, zipCodes) ==
    IF zipCodes = <<>> THEN <<>>
    ELSE LET all == generateSearchUrls(Head(zipCodes), in.searchFilters,
                                       in.discoveryMode)
             \* the primary search and the first MaxDiscovery discovery searches
             searchUrls == SubSeq(all, 1, Min({Len(all), 1 + MaxDiscovery}))
         IN [n \in 1..Len(searchUrls) |->
                SearchRequest(searchUrls[n].url, Head(zipCodes), 1,
                              searchUrls[n].label, in.mode)]
            \o ZipRequests(in, Tail(zipCodes))

InitialQueue(in) ==
    AddRequests([queue |-> <<>>, enqueued |-> {}], ZipRequests(in, ValidZipCodes(in)))

ZeroZipStats == [properties |-> 0, pages |-> 0, errors |-> 0]

\* A card of a search page: its price, the line of its details and the link of
\* its property.
Card(n) ==
    [text |-> PriceText,
     details |-> <<PageDigit(n + 2)>> \o <<" ", "b", "d", "s", " ">> \o <<PageDigit(n)>> \o <<".", "5", " ", "b", "a", " ", "1", ",">>
                    \o <<PageDigit(n), "0", "0">> \o <<" ", "s", "q", "f", "t">>,
     href |-> Str(DetailUrl(<<"1", "-", "e", "l", "m", "-", "s", "t">>, <<PageDigit(n), PageDigit(n)>>))]

\* The lists of cards a search page shows: the first cards, or one card
\* without a link.
CardLists == {[n \in 1..k |-> Card(n)] : k \in 0..MaxCards} \cup {<<El(PriceText)>>}

\* A search page showing the cards at the first selector of their hierarchy,
\* with or without a next-page button at the first selector of its own.
SearchPage(cards, next) ==
    [kind |-> "page", blocked |-> FALSE, cards |-> cards,
     q |-> [x \in Walked("search", "propertyCards") \cup Walked("search", "nextPageButton") |->
                CASE x = SelectorsFor("search", "propertyCards")[1] -> cards
                  [] x = SelectorsFor("search", "nextPageButton")[1] /\ next ->
                        <<El(<<"N", "e", "x", "t">>)>>
                  [] OTHER -> <<>>]]

SearchPages ==
    {[SearchPage(<<>>, FALSE) EXCEPT !.blocked = TRUE]}
        \cup {SearchPage(cards, next) : cards \in CardLists, next \in BOOLEAN}

\* The comprehensive mode runs with maxItems unset and the discovery off.
InputsZip ==
    {Given(keys) : keys \in
        [mode : {"zipcode"},
         zipCodes : {<<ZipCode>>},
         discoveryMode : {"basic", "enhanced"},
         maxPages : 1..MaxLimit,
         maxProperties : 1..MaxLimit,
         maxItems : {0, 1},
         keywordFilterMode : {"none"}]
        \cup
        [mode : {"comprehensive"},
         zipCodes : {<<ZipCode>>},
         discoveryMode : {"basic"},
         maxPages : 1..MaxLimit,
         maxProperties : 1..MaxLimit,
         maxItems : {0},
         keywordFilterMode : {"none"},
         testMode : BOOLEAN]}

InitZip ==
    /\ ManagerInit
    /\ PureIdle
    /\ input \in InputsZip
    /\ requestQueue = InitialQueue(input).queue
    /\ enqueued = InitialQueue(input).enqueued
    /\ dataset = <<>>
    /\ counters = ZeroCounters
    /\ aborted = FALSE
    /\ zipCodeStats = [zipCode \in Range(ValidZipCodes(input)) |-> ZeroZipStats]

\* The crawler hands the next request to the request handler, which calls
\* handleZipcodeSearch: modeStats.zipcodePages++, then await checkForBlocking(page).
HandleZipcodeSearchCall(t) ==
    /\ task[t].pc = "idle"
    /\ ~aborted
    /\ requestQueue # <<>>
    /\ Head(requestQueue).userData.label \in {"ZIPCODE_SEARCH", "COMPREHENSIVE_SEARCH"}
    /\ \E page \in SearchPages :
         Frame(t, [Idle EXCEPT !.pc = "hzs_block", !.op = "handleZipcodeSearch",
                               !.handler = "ZIPCODE_SEARCH", !.request = Head(requestQueue),
                               !.page = page, !.url = Head(requestQueue).url])
    /\ requestQueue' = Tail(requestQueue)
    /\ counters' = Count("zipcodePages")
    /\ UNCHANGED <<input, dataset, aborted, pureVars, zipCodeStats, enqueued>>

\* if (stats) stats[name]++
ZipInc(stats, zipCode, name) ==
    IF zipCode \in DOMAIN stats THEN [stats EXCEPT ![zipCode][name] = @ + 1] ELSE stats

\* After await checkForBlocking(page): a blocked page throws into the catch
\* block of handleZipcodeSearch (stats.errors++, failedExtractions++).
HZSBlockChecked(t) ==
    /\ At(t, "hzs_block")
    /\ IF task[t].page.blocked
       THEN /\ zipCodeStats' = ZipInc(zipCodeStats, task[t].request.userData.zipCode, "errors")
            /\ counters' = Count("failedExtractions")
            /\ Frame(t, [task[t] EXCEPT !.pc = "rh_after", !.caught = TRUE])
            /\ UNCHANGED <<input, requestQueue, dataset, aborted, pureVars, enqueued>>
       ELSE /\ Frame(t, [task[t] EXCEPT !.pc = "hzs_wait"])
            /\ UNCHANGED <<crawlVars, pureVars>>

\* After await page.waitForTimeout(3000): extractSearchResults is called.
HZSWaited(t) ==
    /\ At(t, "hzs_wait")
    /\ Apply(t, ExtractSearchResultsStart(task[t], selectorCache, performanceStats))

\* Whether the loop queues the property for detail extraction.
Queued(f, property) ==
    f.request.userData.mode = "comprehensive" /\ Truthy(property.o.url)

\* The body of the loop for property n, up to its await: the property is
\* queued for detail extraction, or pushed to the dataset.
HZSProperty(t, f, n, cnt, stats) ==
    LET userData == f.request.userData
        property ==
            Obj([f.properties[n].o EXCEPT !.searchUrl = f.request.url]
                @@ [searchZipCode |-> Str(userData.zipCode),
                    searchPage |-> userData.page,
                    searchType |-> userData.searchType])
        qs == AddRequest([queue |-> requestQueue, enqueued |-> enqueued],
                         ZipDetailRequest(property, userData.zipCode))
    IN /\ IF Queued(f, property)
          THEN requestQueue' = qs.queue /\ enqueued' = qs.enqueued /\ dataset' = dataset
          ELSE dataset' = Append(dataset, property.o) /\ UNCHANGED <<requestQueue, enqueued>>
       /\ counters' = cnt
       /\ zipCodeStats' = stats
       /\ Frame(t, [f EXCEPT !.pc = "hzs_property", !.j = n])

\* Mutant: the next page is asked for whatever the page count.
HZSAfterLoopUnbounded(t, f, cnt, stats) ==
    LET zipCode == f.request.userData.zipCode
        after == ZipInc(stats, zipCode, "pages")
        shouldContinue ==
            /\ zipCode \in DOMAIN after
            /\ after[zipCode].properties < input.maxProperties
            /\ Len(f.properties) > 0
    IN /\ counters' = [cnt EXCEPT !.totalPages = @ + 1]
       /\ zipCodeStats' = after
       /\ IF shouldContinue
          THEN Step(t, HasNextPageStart(f, selectorCache, performanceStats))
          ELSE Frame(t, [f EXCEPT !.pc = "rh_after"])
       /\ UNCHANGED <<requestQueue, enqueued, dataset>>

\* After the loop: totalPages++, stats.pages++, and hasNextPage is called when
\* the limits allow another page and the page held properties.
HZSAfterLoop(t, f, cnt, stats) ==
    LET zipCode == f.request.userData.zipCode
        after == ZipInc(stats, zipCode, "pages")
        shouldContinue ==
            /\ zipCode \in DOMAIN after
            /\ after[zipCode].pages < input.maxPages
            /\ after[zipCode].properties < input.maxProperties
            /\ Len(f.properties) > 0
    IN /\ counters' = [cnt EXCEPT !.totalPages = @ + 1]
       /\ zipCodeStats' = after
       /\ IF shouldContinue
          THEN Step(t, HasNextPageStart(f, selectorCache, performanceStats))
          ELSE Frame(t, [f EXCEPT !.pc = "rh_after"])
       /\ UNCHANGED <<requestQueue, enqueued, dataset>>

\* After await extractSearchResults(...): the loop starts, or is skipped.
HZSExtracted(t) ==
    /\ At(t, "hzs_extracted")
    /\ LET f == [task[t] EXCEPT !.properties = task[t].ret.els] IN
       IF Len(f.properties) = 0
       THEN HZSAfterLoop(t, f, counters, zipCodeStats)
       ELSE HZSProperty(t, f, 1, counters, zipCodeStats)
    /\ UNCHANGED <<input, aborted, pureVars>>

\* After await addRequest(...) or await pushData(...) in the loop:
\* successfulExtractions++ for a pushed property, totalProperties++,
\* stats.properties++; then the next property, or the end of the loop.
HZSPropertyDone(t) ==
    /\ At(t, "hzs_property")
    /\ LET f == task[t]
           pushed == ~Queued(f, f.properties[f.j])
           cnt == [counters EXCEPT
                      !.successfulExtractions = IF pushed THEN @ + 1 ELSE @,
                      !.totalProperties = @ + 1]
           stats == ZipInc(zipCodeStats, f.request.userData.zipCode, "properties")
       IN IF f.j < Len(f.properties)
          THEN HZSProperty(t, f, f.j + 1, cnt, stats)
          ELSE HZSAfterLoop(t, f, cnt, stats)
    /\ UNCHANGED <<input, aborted, pureVars>>

\* hasNextPage after await findElements(...).
HNPFind(t) ==
    /\ At(t, "hnp_find")
    /\ Apply(t, HasNextPageResume(task[t], selectorCache, performanceStats))

\* After await hasNextPage(...): the next page of the search is queued, built
\* from the filters of the input.
HZSHasNext(t) ==
    /\ At(t, "hzs_hasnext")
    /\ LET userData == task[t].request.userData
           nextPageUrl == generateSearchUrl(userData.zipCode, input.searchFilters,
                                            userData.page + 1)
           qs == AddRequest([queue |-> requestQueue, enqueued |-> enqueued],
                            SearchRequest(nextPageUrl, userData.zipCode, userData.page + 1,
                                          userData.searchType, userData.mode))
       IN IF task[t].ret.b
          THEN requestQueue' = qs.queue /\ enqueued' = qs.enqueued
          ELSE UNCHANGED <<requestQueue, enqueued>>
    /\ Frame(t, [task[t] EXCEPT !.pc = "rh_after"])
    /\ UNCHANGED <<input, dataset, counters, aborted, pureVars, zipCodeStats>>

\* No two requests of a run share a URL, and the cache key of a search URL is
\* the URL itself: findElements never finds a cached selector here.
NextZip ==
    \/ \E t \in Tasks : HandleZipcodeSearchCall(t)
    \/ \E t \in Tasks : HZSBlockChecked(t)
    \/ \E t \in Tasks : HZSWaited(t)
    \/ \E t \in Tasks : FEStatic(t)
    \/ \E t \in Tasks : ESRCards(t)
    \/ \E t \in Tasks : HZSExtracted(t)
    \/ \E t \in Tasks : HZSPropertyDone(t)
    \/ \E t \in Tasks : HNPFind(t)
    \/ \E t \in Tasks : HZSHasNext(t)
    \/ NextCrawl

SpecZip == InitZip /\ [][NextZip]_vars

\* The property records of the dataset: every record but the error records.
PropertyRecords ==
    {n \in 1..Len(dataset) : "success" \in DOMAIN dataset[n] => dataset[n].success}

\* C18: when maxItems is set, the number of property records pushed to the
\* dataset never exceeds it.
C18_MaxItemsBoundsRecords ==
    input.maxItems # 0 => Cardinality(PropertyRecords) <= input.maxItems

\* C19: for each zip code, the number of search-result pages processed never
\* exceeds maxPages.
C19_MaxPagesBoundsPages ==
    \A zipCode \in DOMAIN zipCodeStats : zipCodeStats[zipCode].pages <= input.maxPages

\* C20: for each zip code, the number of properties extracted (pushed to the
\* dataset or queued for detail extraction) never exceeds maxProperties.
C20_MaxPropertiesBoundsProperties ==
    \A zipCode \in DOMAIN zipCodeStats :
        zipCodeStats[zipCode].properties <= input.maxProperties

\* The URL of a record of the dataset: handleDetailPage pushes it beside the
\* data, handleZipcodeSearch inside them.
RecordUrl(record) == record.url

\* C21: no property, identified by its URL, is pushed to the dataset more than
\* once in a run, on whichever search pages and in whichever discovery
\* searches of the zip code it appears.
C21_NoPropertyPushedTwice ==
    \A m, n \in PropertyRecords :
        (m # n /\ Truthy(RecordUrl(dataset[m])))
            => RecordUrl(dataset[m]) # RecordUrl(dataset[n])

-----------------------------------------------------------------------------
(* The URL generator applied to search filters *)

\* No member, or the member with one of the values.
Optional(key, values) == {<<>>} \cup {<< <<key, v>> >> : v \in values}

\* Search filters in the shape of the input schema.
SchemaFilters ==
    {Dict(minPrice \o maxPrice \o propertyType \o daysOnMarket) :
        minPrice \in Optional(<<"m", "i", "n", "P", "r", "i", "c", "e">>, {Integer(100000), Integer(200000)}),
        maxPrice \in Optional(<<"m", "a", "x", "P", "r", "i", "c", "e">>, {Integer(500000)}),
        propertyType \in Optional(<<"p", "r", "o", "p", "e", "r", "t", "y", "T", "y", "p", "e">>, {Str(<<"a", "l", "l">>), Str(<<"h", "o", "u", "s", "e", "s">>)}),
        daysOnMarket \in Optional(<<"d", "a", "y", "s", "O", "n", "M", "a", "r", "k", "e", "t">>, {Str(<<"a", "n", "y">>), Str(<<"3", "0">>)})}

\* Search filters in the shape buildFilterState reads.
StateFilters ==
    {PriceFilters(50000, 150000), PriceFilters(0, 100000),
     Dict(<< <<<<"d", "a", "y", "s", "O", "n", "Z", "i", "l", "l", "o", "w">>, Value(Str(<<"9", "0">>))>> >>)}

GeneratorFilters == SchemaFilters \cup StateFilters

\* Pages of generateSearchUrl calls.
MaxPage == 3

\* Two calls of generateSearchUrl for one zip code, that differ in the filters
\* or in the page; and calls of generateSearchUrls.
GeneratorCalls ==
    {[fn |-> "generateSearchUrl", zipCode |-> ZipCode,
      a |-> [filters |-> fa, page |-> 1], b |-> [filters |-> fb, page |-> 1]] :
        fa \in GeneratorFilters, fb \in GeneratorFilters}
    \cup
    {[fn |-> "generateSearchUrl", zipCode |-> ZipCode,
      a |-> [filters |-> f, page |-> pa], b |-> [filters |-> f, page |-> pb]] :
        f \in {Dict(<<>>), PriceFilters(50000, 150000)}, pa \in 1..MaxPage, pb \in 1..MaxPage}
    \cup
    {[fn |-> "generateSearchUrls", zipCode |-> ZipCode, filters |-> f,
      discoveryMode |-> discoveryMode] :
        f \in GeneratorFilters, discoveryMode \in {"basic", "enhanced", "comprehensive"}}

InitGen ==
    /\ ManagerInit
    /\ CrawlIdle
    /\ arg \in GeneratorCalls
    /\ res = NoArg

GenerateSearchUrlApplied ==
    /\ res = NoArg
    /\ arg.fn = "generateSearchUrl"
    /\ res' = [a |-> generateSearchUrl(arg.zipCode, arg.a.filters, arg.a.page),
               b |-> generateSearchUrl(arg.zipCode, arg.b.filters, arg.b.page)]
    /\ UNCHANGED <<arg, managerVars, crawlVars>>

GenerateSearchUrlsApplied ==
    /\ res = NoArg
    /\ arg.fn = "generateSearchUrls"
    /\ res' = generateSearchUrls(arg.zipCode, arg.filters, arg.discoveryMode)
    /\ UNCHANGED <<arg, managerVars, crawlVars>>

NextGen ==
    \/ GenerateSearchUrlApplied
    \/ GenerateSearchUrlsApplied

SpecGen == InitGen /\ [][NextGen]_vars

\* C22: two filter inputs in the shape of the input schema that differ in
\* minPrice or maxPrice give different search URLs.
C22_PriceFiltersReachUrl ==
    (/\ Applied("generateSearchUrl")
     /\ arg.a.filters \in SchemaFilters /\ arg.b.filters \in SchemaFilters
     /\ arg.a.page = arg.b.page
     /\ \/ Get(arg.a.filters, <<"m", "i", "n", "P", "r", "i", "c", "e">>) # Get(arg.b.filters, <<"m", "i", "n", "P", "r", "i", "c", "e">>)
        \/ Get(arg.a.filters, <<"m", "a", "x", "P", "r", "i", "c", "e">>) # Get(arg.b.filters, <<"m", "a", "x", "P", "r", "i", "c", "e">>))
        => res.a # res.b

\* The URLs of the searches in the list.
UrlsOf(zipCode, searches) ==
    {generateSearchUrl(zipCode, searches[n].filters, 1) : n \in 1..Len(searches)}

\* C23: in discoveryMode "comprehensive" the search URLs of a zip code
\* include the URL of every price-based, time-based and distressed-property
\* search; in discoveryMode "basic" there is exactly one search URL.
C23_ComprehensiveHasEveryStrategy ==
    Applied("generateSearchUrls") =>
        /\ arg.discoveryMode = "comprehensive" =>
                UrlsOf(arg.zipCode, generatePriceBasedUrls \o generateTimeBasedUrls
                                        \o generateDistressedPropertyUrls)
                    \subseteq {res[n].url : n \in 1..Len(res)}
        /\ arg.discoveryMode = "basic" => Len(res) = 1

\* C24: for a fixed zip code and filters, different pages give different
\* URLs, and the URL of page p contains the text currentPage":p.
C24_PageInUrl ==
    (Applied("generateSearchUrl") /\ arg.a.filters = arg.b.filters /\ arg.a.page # arg.b.page)
        => /\ res.a # res.b
           /\ Includes(res.b.s, <<"c", "u", "r", "r", "e", "n", "t", "P", "a", "g", "e">> \o <<"\"", ":">> \o Decimal(arg.b.page))

-----------------------------------------------------------------------------
(* getStats() and what its caller holds, among searches and resets *)

\* getStats() is synchronous: one step, between any two segments of the tasks.
GetStatsCall ==
    /\ snapshot.ref = "none"
    /\ snapshot' = Snapshot(GetStatsObject, selectorCache, performanceStats)
    /\ UNCHANGED <<selectorCache, performanceStats, task, lastReset, tally,
                   pureVars, crawlVars>>

\* The caller writes to the object it holds: stats.aiCalls++.  The write lands
\* in the engine's counters when the object is a view of them.
ModifySnapshot ==
    /\ snapshot.ref # "none"
    /\ ~snapshot.modified
    /\ IF snapshot.ref = "fresh"
       THEN /\ snapshot' = [snapshot EXCEPT !.modified = TRUE, !.own.aiCalls = @ + 1]
            /\ UNCHANGED performanceStats
       ELSE /\ snapshot' = [snapshot EXCEPT !.modified = TRUE]
            /\ performanceStats' = Inc(performanceStats, "aiCalls")
    /\ UNCHANGED <<selectorCache, task, lastReset, tally, pureVars, crawlVars>>

NextStats ==
    \/ \E t \in Tasks : ExtractSearchResultsCall(t)
    \/ \E t \in Tasks : FECached(t)
    \/ \E t \in Tasks : FEStatic(t)
    \/ \E t \in Tasks : ESRCards(t)
    \/ \E t \in Tasks : Complete(t)
    \/ Reset
    \/ GetStatsCall
    \/ ModifySnapshot

SpecStats == Init /\ [][NextStats]_vars

Absolute(s) == StartsWith(s, <<"h", "t", "t", "p", ":", "/", "/">>) \/ StartsWith(s, <<"h", "t", "t", "p", "s", ":", "/", "/">>)

\* C26: normalizeUrl returns null only for an empty or missing input, returns
\* an absolute URL unchanged, maps a relative path to a URL that starts with
\* https://www.zillow.com, and applied to its own result changes nothing.
C26_NormalizeUrl ==
    Applied("normalizeUrl") =>
        /\ res.once = Null <=> ~Truthy(arg.x)
        /\ Truthy(arg.x) =>
                IF Absolute(arg.x.s) THEN res.once = arg.x
                ELSE IsStr(res.once) /\ StartsWith(res.once.s, Origin)
        /\ res.twice = res.once

-----------------------------------------------------------------------------
(* Search pages whose cards carry different markup *)

\* The markup of a card: the card selector it answers to.
CardKinds == {CardSelectors[1], CardSelectors[2], CardSelectors[3]}

\* The selectors of the tables an element of that markup matches.
MatchedBy(kind) ==
    IF kind = ".property-card" THEN {kind, "[class*=\"property\"]"} ELSE {kind}

\* A document given by the markup of its cards in document order; the n-th
\* card shows the n-th property.
CardDocument(kinds) ==
    LET matching(x) == {n \in 1..Len(kinds) : x \in MatchedBy(kinds[n])}
        RECURSIVE Listed(_, _)
        Listed(n, pick) ==
            IF n > Len(kinds) THEN <<>>
            ELSE (IF n \in pick THEN <<Card(n)>> ELSE <<>>) \o Listed(n + 1, pick)
    IN [kind |-> "page", blocked |-> FALSE,
        q |-> [x \in UNION {MatchedBy(k) : k \in CardKinds} |-> Listed(1, matching(x))],
        cards |-> Listed(1, {n \in 1..Len(kinds) : kinds[n] \in Range(CardSelectors)})]

CardDocuments ==
    {NullPage} \cup {CardDocument(kinds) : kinds \in UNION {[1..k -> CardKinds] : k \in 0..MaxCards}}

\* Two search URLs of one pattern.
SearchUrls == {UrlC, Str(<<"/", "s", "/", "2">>)}

FindElementsOnCards(t) ==
    /\ CanStart(t)
    /\ \E url \in SearchUrls, page \in CardDocuments :
            Apply(t, FindElementsStart(
                        Call("findElements", page, "propertyCards", url, "search"),
                        selectorCache, performanceStats))

ExtractSearchResultsOnCards(t) ==
    /\ CanStart(t)
    /\ \E url \in SearchUrls, page \in CardDocuments :
            Apply(t, ExtractSearchResultsStart(
                        Call("extractSearchResults", page, "", url, "search"),
                        selectorCache, performanceStats))

NextCards ==
    \/ \E t \in Tasks : FindElementsOnCards(t)
    \/ \E t \in Tasks : ExtractSearchResultsOnCards(t)
    \/ \E t \in Tasks : FECached(t)
    \/ \E t \in Tasks : FEStatic(t)
    \/ \E t \in Tasks : ESRCards(t)
    \/ \E t \in Tasks : Complete(t)

SpecCards == Init /\ [][NextCards]_vars

\* The frame of task t evaluates a selector of the hierarchy in this step.
WalkStep(t) == task[t].pc = "fe_static" /\ task'[t] # task[t]

\* The selectors of the hierarchy up to and including the first that matches
\* on the page, all of them when none does.
WalkedUntilMatch(f) ==
    LET h == Hierarchy(f)
        hit == {n \in 1..Len(h) : Matches(f, h[n])}
        last == IF hit = {} THEN Len(h) ELSE CHOOSE n \in hit : \A o \in hit : n <= o
    IN SubSeq(h, 1, last)

StaticsOf(f) == SelectSeq(f.trace, LAMBDA e : e[1] = "static")

\* C27: after the cache tier findElements walks the hierarchy in declared order
\* and stops at the first selector matching at least one element; the result is
\* the list of all elements that selector matches and of no other, the selector
\* is written to the cache and cacheMisses grows by one; when no selector
\* matches the result is empty and the cache and the counters stay as they were.
C27_FindElementsWalk ==
    [][\A t \in Tasks :
        WalkStep(t) =>
            LET f == task[t]
                g == task'[t]
                h == Hierarchy(f)
                walked == WalkedUntilMatch(f)
                selector == walked[Len(walked)]
            IN IF g.pc = "fe_static"
               THEN /\ ~Matches(f, h[f.i])
                    /\ g.i = f.i + 1
                    /\ UNCHANGED <<selectorCache, performanceStats>>
               ELSE /\ [n \in 1..Len(StaticsOf(g)) |-> StaticsOf(g)[n][2]] = walked
                    /\ ~g.threw
                    /\ IF Matches(f, selector)
                       THEN /\ g.ret = List(QueryAll(f.page, selector))
                            /\ Len(g.ret.els) >= 1
                            /\ selectorCache' = CacheSet(selectorCache,
                                    CacheKey(f.pageType, f.fieldName, f.url), selector)
                            /\ performanceStats' = Inc(performanceStats, "cacheMisses")
                       ELSE /\ g.ret = List(<<>>)
                            /\ UNCHANGED <<selectorCache, performanceStats>>]_vars

\* A walk that went past a selector without a match has settled on the next
\* one, which matches two cards, after a stale cache entry.
C27_Witness ==
    \E f \in Frames :
        /\ FESettled(f)
        /\ f.entryAtCall # NoSel
        /\ Len(StaticsOf(f)) = 2
        /\ Len(f.ret.els) = 2
        /\ f.own = Only("cacheMisses")
        /\ f.entryAtStep = StaticsOf(f)[2][2]

\* A walk that found nothing, with an entry in the cache that it leaves alone.
C27_WitnessEmpty ==
    \E f \in Frames :
        /\ FESettled(f)
        /\ f.page.kind = "page"
        /\ f.entryAtCall # NoSel
        /\ f.entryAtStep = f.entryAtCall
        /\ Len(StaticsOf(f)) = MaxSel
        /\ f.ret = List(<<>>)

\* C28: in extractSearchResults the i-th record is read from the i-th element
\* of the list findElements returned for propertyCards, whichever selector
\* produced that list.
C28_RecordFromItsCard ==
    [][\A t \in Tasks :
        /\ task[t].pc = "esr_cards"
        /\ ~task[t].threw
        /\ task'[t].op = "extractSearchResults"
        => LET propertyCards == task[t].ret.els IN
           task'[t].ret = List([i \in 1..Len(propertyCards) |->
                                   SearchCardData(propertyCards[i], task[t].url)])]_vars

-----------------------------------------------------------------------------
(* The generative fallback of extractField *)

\* Task t runs a segment of the generative fallback in this step.
AIStep(t) ==
    /\ task[t].pc \in {"ai_content", "ai_create", "ai_try", "ef_ai_ret"}
    /\ task'[t] # task[t]

\* C29: when the generated selector gives a value on the page, extractField
\* returns that value, the call writes the generated selector to the cache
\* entry of (pageType, field, pattern) and increments aiCalls by one; when the
\* client fails, answers nothing usable, or its selector gives nothing,
\* extractField returns null and the call changes neither the cache nor any
\* counter.
C29_FallbackEffects ==
    [][\A t \in Tasks :
        AIStep(t) =>
            LET f == task[t]
                g == task'[t]
                key == CacheKey(f.pageType, f.fieldName, f.url)
                value == TrySelector(f.page, f.aiSelector, f.fieldName)
            IN /\ f.pc = "ai_try" =>
                    IF Truthy(value)
                    THEN /\ g.pc = "ef_ai_ret"
                         /\ selectorCache' = CacheSet(selectorCache, key, f.aiSelector)
                         /\ g.entryAtStep = f.aiSelector
                         /\ performanceStats' = performanceStats
                    ELSE EFSettled(g)
               /\ f.pc = "ef_ai_ret" =>
                    /\ EFSettled(g) /\ ~g.threw
                    /\ Truthy(value) /\ g.ret = value
                    /\ performanceStats' = Inc(performanceStats, "aiCalls")
                    /\ g.own = Only("aiCalls")
                    /\ selectorCache' = selectorCache
               /\ f.pc # "ef_ai_ret" /\ EFSettled(g) =>
                    /\ ~g.threw /\ g.ret = Null
                    /\ g.own = ZeroStats
                    /\ UNCHANGED <<selectorCache, performanceStats>>
               /\ f.pc \in {"ai_content", "ai_create"} =>
                    UNCHANGED <<selectorCache, performanceStats>>]_vars

\* A call that found a stale entry in the cache has returned the value of the
\* generated selector, which is now the entry of its key.
C29_Witness ==
    \E f \in Frames :
        /\ EFSettled(f) /\ Truthy(f.ret)
        /\ f.trace[Len(f.trace)] = <<"ai", f.aiSelector>>
        /\ f.entryAtCall \notin {NoSel, f.aiSelector}
        /\ f.entryAtStep = f.aiSelector
        /\ f.own = Only("aiCalls")

\* A call whose generated selector gave nothing has returned null.
C29_WitnessNothing ==
    \E f \in Frames :
        /\ EFSettled(f) /\ f.ret = Null /\ f.trace # <<>>
        /\ f.trace[Len(f.trace)] = <<"ai", f.aiSelector>>
        /\ f.entryAtCall # NoSel /\ f.entryAtStep = f.entryAtCall

-----------------------------------------------------------------------------
(* Two resolutions at a time on one manager *)

Resolvers == {1, 2}

\* Two documents of one URL pattern; every text of a document carries its name.
Documents == [A |-> UrlA, B |-> UrlB]
\* The document each resolver works on.
DocumentOf == <<"A", "B">>

\* The pages of a document: the price is nowhere, or at one selector (of the
\* hierarchy, or the generated one).
DocumentPages(d) ==
    LET S == Walked("detail", "price") \cup AISelectors IN
    {[kind |-> "page", blocked |-> FALSE, cards |-> <<>>,
      q |-> [x \in S |-> IF x \in at THEN <<El(<<d, x>>)>> ELSE <<>>]] :
        at \in {{}} \cup {{x} : x \in S}}

InitRace ==
    /\ selectorCache = {}
    /\ performanceStats = ZeroStats
    /\ task = [t \in Resolvers |-> Idle]
    /\ lastReset = NoReset
    /\ tally = ZeroTally
    /\ snapshot = NoSnapshot
    /\ PureIdle
    /\ CrawlIdle

ExtractFieldOnDocument(t) ==
    /\ CanStart(t)
    /\ \E page \in DocumentPages(DocumentOf[t]) :
            Apply(t, ExtractFieldStart(
                        Call("extractField", page, "price", Documents[DocumentOf[t]], "detail"),
                        selectorCache, performanceStats))

NextRace ==
    \/ \E t \in Resolvers : ExtractFieldOnDocument(t)
    \/ \E t \in Resolvers : EFCached(t)
    \/ \E t \in Resolvers : EFStatic(t)
    \/ \E t \in Resolvers : AIContent(t)
    \/ \E t \in Resolvers : AICreate(t)
    \/ \E t \in Resolvers : AITry(t)
    \/ \E t \in Resolvers : EFAIReturn(t)
    \/ \E t \in Resolvers : Complete(t)

SpecRace == InitRace /\ [][NextRace]_vars

\* The texts a document shows, at any selector.
TextsOf(url) ==
    {Str(<<d, x>>) : d \in {d \in DOMAIN Documents : Documents[d] = url},
                     x \in Walked("detail", "price") \cup AISelectors}

\* C30: under any interleaving of resolutions sharing one manager, a value
\* that extractField returns is what the last selector the call evaluated gives
\* on the call's own page, a text of its own document; the call evaluates the
\* cached selector at most once, the static selectors at most once each, in
\* order, and calls the client at most once.
C30_ValueFromOwnDocument ==
    \A f \in Frames :
        EFSettled(f) =>
            /\ ~f.threw
            /\ f.ret # Null =>
                /\ f.trace # <<>>
                /\ LET e == f.trace[Len(f.trace)] IN
                      /\ e[1] \in {"cache", "static", "ai"}
                      /\ f.ret = TrySelector(f.page, e[2], f.fieldName)
                /\ f.ret \in TextsOf(f.url)
            /\ Len(SelectSeq(f.trace, LAMBDA e : e[1] = "cache")) <= 1
            /\ StaticsTried(f) = SubSeq(Hierarchy(f), 1, Len(StaticsTried(f)))
            /\ AICallsMade(f) <= 1

\* Both resolutions missed the cache on the same key and each walked the
\* hierarchy of its own document; both wrote the entry.
C30_Witness ==
    \E f, g \in Frames :
        /\ EFSettled(f) /\ EFSettled(g)
        /\ f.url = UrlA /\ g.url = UrlB
        /\ Truthy(f.ret) /\ Truthy(g.ret) /\ f.ret # g.ret
        /\ f.own = Only("cacheMisses") /\ g.own = Only("cacheMisses")
        /\ f.entryAtCall = NoSel /\ g.entryAtCall = NoSel
        /\ f.trace # g.trace

\* A resolution on document B has used the entry written for document A.
C30_WitnessOtherDocument ==
    \E f, g \in Frames :
        /\ EFSettled(f) /\ EFSettled(g)
        /\ f.url = UrlA /\ g.url = UrlB
        /\ f.own = Only("cacheMisses")
        /\ g.entryAtCall = f.entryAtStep /\ g.entryAtCall # NoSel
        /\ g.own = Only("cacheHits")
        /\ g.ret \in TextsOf(UrlB)

-----------------------------------------------------------------------------
(* Two resolvers on different keys *)

\* A page of a field: nothing at any of the selectors, or an element at one.
PagesOf(selectors) ==
    {PageOf([x \in selectors |-> IF x \in at THEN "text" ELSE "none"]) :
        at \in {{}} \cup {{x} : x \in selectors}}

\* The first resolver reads the price of detail pages of one pattern; the
\* second lists the cards of search pages of two patterns.
KeyCalls(t) ==
    IF t = 1
    THEN {Call("extractField", page, "price", UrlA, "detail") :
            page \in PagesOf(Walked("detail", "price") \cup AISelectors)}
    ELSE {Call("findElements", page, "propertyCards", url, "search") :
            url \in {UrlA, UrlC}, page \in PagesOf(Walked("search", "propertyCards"))}

ResolveCall(t) ==
    /\ CanStart(t)
    /\ \E call \in KeyCalls(t) :
            Apply(t, IF call.op = "extractField"
                     THEN ExtractFieldStart(call, selectorCache, performanceStats)
                     ELSE FindElementsStart(call, selectorCache, performanceStats))

NextKeys ==
    \/ \E t \in Resolvers : ResolveCall(t)
    \/ \E t \in Resolvers : EFCached(t)
    \/ \E t \in Resolvers : EFStatic(t)
    \/ \E t \in Resolvers : AIContent(t)
    \/ \E t \in Resolvers : AICreate(t)
    \/ \E t \in Resolvers : AITry(t)
    \/ \E t \in Resolvers : EFAIReturn(t)
    \/ \E t \in Resolvers : FECached(t)
    \/ \E t \in Resolvers : FEStatic(t)
    \/ \E t \in Resolvers : Complete(t)

SpecKeys == InitRace /\ [][NextKeys]_vars

\* The frame of the resolution that task t runs in this step.
Stepping(t) == IF task[t].pc = "idle" THEN task'[t] ELSE task[t]

\* C31: a step of a resolution for key (pageType, field, pattern) leaves every
\* cache entry of another key as it was, whatever the other resolutions do in
\* between.
C31_OtherKeysUntouched ==
    [][\A t \in Resolvers :
        task'[t] # task[t] /\ IsStr(Stepping(t).url) =>
            LET f == Stepping(t)
                key == CacheKey(f.pageType, f.fieldName, f.url)
            IN {e \in selectorCache' : e.key # key} = {e \in selectorCache : e.key # key}]_vars

\* One resolver is walking the hierarchy past the stale entry of its key while
\* the other has written the entry of its own key.
C31_Witness ==
    \E t, u \in Resolvers :
        /\ task[t].pc \in {"ef_static", "fe_static"}
        /\ task[t].entryAtCall # NoSel
        /\ task[t].entryAtStep = task[t].entryAtCall
        /\ task[u].pc = "done"
        /\ task[u].own = Only("cacheMisses")
        /\ task[u].entryAtStep # task[t].entryAtStep
        /\ Cardinality(selectorCache) = 2

-----------------------------------------------------------------------------
(* The counters between two calls of reset() *)

\* C32: the five counters are non-negative integers in every state, and no
\* step other than reset() decreases any of them.
C32_CountersNeverDecrease ==
    /\ [](\A c \in DOMAIN performanceStats : performanceStats[c] \in Nat)
    /\ [][lastReset' = NoReset =>
            \A c \in DOMAIN performanceStats : performanceStats'[c] >= performanceStats[c]]_vars

\* Counters of the field tiers and of the document level have grown since the
\* last reset().
C32_Witness ==
    /\ lastReset = NoReset
    /\ performanceStats.cacheMisses >= 1
    /\ performanceStats.successfulExtractions + performanceStats.failedExtractions >= 1
    /\ tally.static >= 1

\* C33: the segments of extractField, findElements, trySelector and
\* tryAISelector leave successfulExtractions and failedExtractions as they
\* are; the two counters change only at the document level, and the segment
\* that ends extractPropertyDetails increments exactly one of them by one.
C33_DocumentLevelCounters ==
    [][\A t \in Tasks :
        task'[t] # task[t] =>
            LET s == performanceStats.successfulExtractions
                f == performanceStats.failedExtractions
                s2 == performanceStats'.successfulExtractions
                f2 == performanceStats'.failedExtractions
            IN CASE task[t].pc = "epd_tail" ->
                        /\ task'[t].op = "extractPropertyDetails"
                        /\ <<s2, f2>> \in {<<s + 1, f>>, <<s, f + 1>>}
                 [] task[t].pc = "esr_cards" -> s2 = s /\ f2 \in {f, f + 1}
                 [] OTHER -> s2 = s /\ f2 = f]_vars

\* An extractPropertyDetails call has ended with the price missing from its
\* record and is counted once, as a success.
C33_Witness ==
    \E f \in Frames :
        /\ f.op = "extractPropertyDetails" /\ f.pc = "done"
        /\ f.ret.o.price = Null /\ f.ret.o.description # Null
        /\ performanceStats.successfulExtractions = 1
        /\ performanceStats.failedExtractions = 0

-----------------------------------------------------------------------------
(* The comprehensive mode *)

\* A record that handleDetailPage pushed: the extracted data under "data", or
\* the error record.
FromDetailPage(record) == "success" \in DOMAIN record

\* C34: in comprehensive mode every record of the dataset was pushed by the
\* detail handler; no property is pushed from a search page.
C34_OnlyDetailRecords ==
    input.mode = "comprehensive" =>
        \A n \in 1..Len(dataset) : FromDetailPage(dataset[n])

-----------------------------------------------------------------------------
(* The details line of a search card *)

\* C35: a record extracted from a search card carries the beds, baths and sqft
\* that the details line of its card gives.
C35_CardDetailsMerged ==
    \A f \in Frames :
        f.op = "extractSearchResults" /\ f.pc = "done" =>
            \A i \in 1..Len(f.ret.els) :
                LET details == parsePropertyDetails(Str(CardAt(f.page, i).details))
                    record == f.ret.els[i].o
                IN /\ record.beds = details.beds
                   /\ record.baths = details.baths
                   /\ record.sqft = details.sqft

-----------------------------------------------------------------------------
(* Two resolvers and reset() *)

\* The calls of the two resolvers on the URLs of one pattern.
ResolveOnPattern(t) ==
    /\ CanStart(t)
    /\ \E call \in {c \in KeyCalls(t) : c.url = UrlA} :
            Apply(t, IF call.op = "extractField"
                     THEN ExtractFieldStart(call, selectorCache, performanceStats)
                     ELSE FindElementsStart(call, selectorCache, performanceStats))

NextReset ==
    \/ \E t \in Resolvers : ResolveOnPattern(t)
    \/ \E t \in Resolvers : EFCached(t)
    \/ \E t \in Resolvers : EFStatic(t)
    \/ \E t \in Resolvers : AIContent(t)
    \/ \E t \in Resolvers : AICreate(t)
    \/ \E t \in Resolvers : AITry(t)
    \/ \E t \in Resolvers : EFAIReturn(t)
    \/ \E t \in Resolvers : FECached(t)
    \/ \E t \in Resolvers : FEStatic(t)
    \/ \E t \in Resolvers : Complete(t)
    \/ Reset

SpecReset == InitRace /\ [][NextReset]_vars

\* The patterns of the URLs the resolvers are called with.
Patterns == {getUrlPattern(url.s) : url \in {UrlA, UrlB, UrlC}}

\* C36: every cache entry has a key (pageType, field, pattern) and holds a
\* selector of the static hierarchy of that page type and field or a selector
\* the generative client returned; and an entry is written only by a step of
\* a resolution of its key in which the selector matched on the page of that
\* resolution.
C36_EntriesWereValidated ==
    /\ [](\A e \in selectorCache :
            /\ e.key[1] \in PageTypes
            /\ e.key[3] \in Patterns
            /\ e.sel \in Walked(e.key[1], e.key[2]) \cup AISelectors
            /\ \A o \in selectorCache : o.key = e.key => o = e)
    /\ [][\A e \in selectorCache' \ selectorCache :
            \E t \in Resolvers :
                /\ task'[t] # task[t]
                /\ e.key = CacheKey(task[t].pageType, task[t].fieldName, task[t].url)
                /\ Matches(task[t], e.sel)
                /\ \/ task[t].pc \in {"ef_static", "fe_static"}
                      /\ e.sel = Hierarchy(task[t])[task[t].i]
                   \/ task[t].pc = "ai_try" /\ e.sel = task[t].aiSelector]_vars

\* After a reset() that fell between two segments of a resolution, the cache
\* holds the generated selector written by that resolution and the entry the
\* other resolver wrote.
C36_Witness ==
    /\ \E e \in selectorCache : e.sel \in AISelectors
    /\ \E e \in selectorCache : e.sel \notin AISelectors
    /\ \E t \in Resolvers : task[t].pc = "ef_ai_ret"
    /\ performanceStats.cacheMisses = 1 /\ performanceStats.cacheHits = 0
    /\ tally.static = 1

-----------------------------------------------------------------------------
(* Termination of the zip code crawl *)

\* The runs of the fair specification: basic discovery, and maxProperties at
\* its bound (a page of MaxCards cards reaches it, a page of fewer does not).
InitZipFair ==
    /\ InitZip
    /\ input.discoveryMode = "basic"
    /\ input.maxProperties = MaxLimit

\* The crawler runs a pending request whenever a handler slot is free, and an
\* awaited promise that settled resumes its handler: a step that can be taken
\* is taken.
SpecZipFair == InitZipFair /\ [][NextZip]_vars /\ WF_vars(NextZip)

\* The crawler is done: no handler runs, and the queue is empty or the pool
\* was aborted.
Finished ==
    /\ \A t \in Tasks : task[t].pc = "idle"
    /\ requestQueue = <<>> \/ aborted

\* The step added a search request to the queue.
NextPageAdded ==
    /\ Len(requestQueue') > Len(requestQueue)
    /\ requestQueue'[Len(requestQueue')].userData.label
            \in {"ZIPCODE_SEARCH", "COMPREHENSIVE_SEARCH"}

-----------------------------------------------------------------------------
(* The accounting of detail pages *)

\* The requests failedRequestHandler took: every request that left the queue
\* and was not handed to handleDetailPage (the URLs of the queue are distinct).
FailedRequests == Cardinality(enqueued) - Len(requestQueue) - counters.detailPages

\* By how much the step raises a counter.
Raised(name) == counters'[name] - counters[name]

\* The step in which handleDetailPage of task t settles how the page counts:
\* it leaves the try block, or enters the catch block.
Settles(t) ==
    /\ task[t].handler = "DETAIL"
    /\ task[t].pc \notin {"rh_after", "hdp_errpush"}
    /\ task'[t].pc \in {"rh_after", "hdp_errpush"}

\* C38: handleDetailPage raises exactly one of keywordMatches (with
\* successfulExtractions, for a record that was pushed), keywordFiltered and
\* failedExtractions (in the catch block), once, in the step that settles the
\* page, and in no other step; with no handler in flight detailPages is the
\* sum of keywordMatches, keywordFiltered and the failed detail pages.
C38_DetailPagesAccounted ==
    /\ []((\A t \in Tasks : task[t].pc = "idle") =>
            counters.detailPages
                = counters.keywordMatches + counters.keywordFiltered
                    + (counters.failedExtractions - FailedRequests))
    /\ [][\A t \in Tasks :
            IF Settles(t)
            THEN /\ Raised("keywordMatches") + Raised("keywordFiltered")
                        + Raised("failedExtractions") = 1
                 /\ \A name \in {"keywordMatches", "keywordFiltered", "failedExtractions"} :
                        Raised(name) \in {0, 1}
                 /\ Raised("successfulExtractions") = Raised("keywordMatches")
                 /\ Raised("keywordMatches") = 1 <=> Emitted(task[t]) /\ ~task'[t].caught
                 /\ Raised("failedExtractions") = 1 <=> task'[t].caught
                 /\ Raised("detailPages") = 0
            ELSE task'[t] # task[t] =>
                    /\ Raised("keywordMatches") = 0
                    /\ Raised("keywordFiltered") = 0
                    /\ Raised("failedExtractions") = 0
                    /\ Raised("detailPages")
                            = IF task[t].pc = "idle" /\ task'[t].pc = "hdp_block" THEN 1 ELSE 0]_vars

\* Two detail pages were handled, one filtered out and one failed, no request
\* was given up, and no handler is in flight.
C38_Witness ==
    /\ \A t \in Tasks : task[t].pc = "idle"
    /\ counters.detailPages = 2
    /\ counters.keywordFiltered = 1
    /\ counters.failedExtractions = 1
    /\ FailedRequests = 0

-----------------------------------------------------------------------------
(* getUrlPattern applied to a pattern *)

\* The pattern holds a run of five digits or more, or a /<digits>_zpid segment.
HoldsIdentifier(pattern) ==
    \E i \in 1..Len(pattern) : LongRunAt(pattern, i) \/ ZpidMatchAt(pattern, i)

\* C39: getUrlPattern applied to a pattern it returned gives that pattern
\* back, and the pattern holds no run of five digits or more and no
\* /<digits>_zpid segment.
C39_PatternIdempotent ==
    res # NoArg /\ arg.fn = "getUrlPattern" =>
        \A pattern \in {res.a, res.b} :
            /\ getUrlPattern(pattern) = pattern
            /\ ~HoldsIdentifier(pattern)

====
